---------------------------- MODULE Spec2Model ----------------------------
(***************************************************************************)
(* A model of hal-http-client (src/hal-http-client.js): one client         *)
(* instance created by create(), its GET promise cache, its queue of       *)
(* unsafe requests, follow / followAll and the status dispatch of          *)
(* ResponsePromise.on.                                                     *)
(*                                                                         *)
(* Conventions.                                                            *)
(*  - A promise is an index into `promises`; a transport call (one call of *)
(*    fetch) is an index into `fetches`; an object that the dispatch of    *)
(*    `on` marks (a response, or the array a followAll resolves with) is   *)
(*    an index into `objects`.                                             *)
(*  - A JavaScript object used as a map whose key order matters (headers)  *)
(*    is a sequence of <<key, value>> pairs with distinct keys, in         *)
(*    insertion order.                                                     *)
(*  - A string that the code takes apart (the path given to path(), the    *)
(*    status string) is a sequence of one-character strings; Text joins it *)
(*    into a TLA+ string.                                                  *)
(*  - `calls`, `invoked` and `logged` are history variables: the API calls *)
(*    made, the handlers called and the messages logged so far.            *)
(***************************************************************************)
EXTENDS Naturals, Sequences, FiniteSets, TLC

VARIABLES
    globalOptions,        \* create(): queueUnsafeRequests, headers, on
    getPromiseCache,      \* create(): cache key -> promise
    continuationPromise,  \* tail of the queue of unsafe requests, 0 = undefined
    promises,             \* every promise the client has created
    fetches,              \* every call of fetch
    objects,              \* responses and arrays of responses
    calls,                \* history: API calls
    invoked,              \* history: handler invocations
    logged                \* history: messages given to logError / logDebug

vars == <<globalOptions, getPromiseCache, continuationPromise, promises, fetches,
          objects, calls, invoked, logged>>

-----------------------------------------------------------------------------
(* Bounds of the model.                                                    *)

\* get and head calls made in one behaviour
MaxCalls == 3

\* put, post, patch and del calls made in one behaviour
MaxUnsafe == 3

\* on calls made in one behaviour
MaxOn == 2

\* follow and followAll calls made in one behaviour
MaxFollow == 1

\* get calls made in one behaviour of SpecOn
MaxOnGets == 1

\* on calls made in one behaviour of SpecFollowAll
MaxListOn == 1

\* on calls made on a promise of on in one behaviour
MaxThen == 2

\* get and follow calls made in one behaviour of SpecDispatch
MaxDispatchCalls == 1

\* get and post calls made in one behaviour of SpecChain
MaxChainVerbs == 1

\* on calls made in one behaviour of SpecChain
MaxChainOn == 3
MaxBodyCalls == 1
MaxBodyOn == 1
MaxThenGets == 1
MaxThenOn == 2
MaxHeaderCalls == 1
MaxKeyCalls == 2
MaxNoUrlCalls == 2
MaxTransformCalls == 2
MaxLiveCalls == 2

\* firstRelationHref and selfLink calls made in one behaviour
MaxHrefCalls == 2

\* calls made in one behaviour of SpecFrame
MaxFrameCalls == 3

\* on calls made in one behaviour of SpecText
MaxTextOn == 2

\* get calls made in one behaviour of SpecInit
MaxInitCalls == 2

\* follow and followAll calls made in one behaviour of SpecShared
MaxSharedCalls == 2

\* verb calls made in one behaviour of SpecThrow
MaxThrowCalls == 3

-----------------------------------------------------------------------------
(* Strings and sequences.                                                  *)

RECURSIVE Text(_)
\* the string spelled by a sequence of one-character strings
Text(chars) ==
    IF chars = <<>> THEN "" ELSE Head(chars) \o Text(Tail(chars))

RECURSIVE SplitAcc(_, _, _)
SplitAcc(chars, sep, cur) ==
    IF chars = <<>> THEN <<cur>>
    ELSE IF Head(chars) = sep THEN <<cur>> \o SplitAcc(Tail(chars), sep, "")
    ELSE SplitAcc(Tail(chars), sep, cur \o Head(chars))

\* String.prototype.split( sep ) for a one-character separator
Split(chars, sep) == SplitAcc(chars, sep, "")

Range(s) == {s[i] : i \in 1..Len(s)}


-----------------------------------------------------------------------------
(* JSON values: the representations, link objects and bodies the client is *)
(* given.  A value is tagged with its JavaScript type.                     *)

JUndefined == [type |-> "undefined"]
JNull == [type |-> "null"]
JString(s) == [type |-> "string", value |-> s]
JObject(props) == [type |-> "object", props |-> props]
JArray(items) == [type |-> "array", items |-> items]

\* texts: the JSON text of a value, a text that is no JSON (an HTML page), ''
JsonText(v) == [type |-> "json", of |-> v]
HtmlText == [type |-> "html"]
EmptyText == [type |-> "string", value |-> ""]

\* an object without own properties: {}
NoProps == [k \in {} |-> JNull]

\* a string given by its characters, for the strings the code takes apart
JChars(chars) == [type |-> "chars", chars |-> chars]
JNumber(n) == [type |-> "number", value |-> n]
JBoolean(b) == [type |-> "boolean", value |-> b]

\* ToBoolean: undefined, null, '', 0 and false are falsy, objects and arrays are
\* truthy
Truthy(v) ==
    CASE v.type = "undefined" -> FALSE
      [] v.type = "null" -> FALSE
      [] v.type = "string" -> v.value # ""
      [] v.type = "chars" -> v.chars # <<>>
      [] v.type = "number" -> v.value # 0
      [] v.type = "boolean" -> v.value
      [] OTHER -> TRUE

Array_isArray(v) == v.type = "array"

\* the own property names of an array: its indices "0", "1", ... and "length"
ArrayKeys(v) == {ToString(i - 1) : i \in 1..Len(v.items)} \cup {"length"}

\* node && typeof node === 'object' && node.hasOwnProperty( key )
hasOwnProperty(node, key) ==
    CASE node.type = "object" -> key \in DOMAIN node.props
      [] node.type = "array" -> key \in ArrayKeys(node)
      [] OTHER -> FALSE

\* node[ key ] for an own property
Prop(node, key) ==
    IF node.type = "object" THEN node.props[key]
    ELSE IF key = "length" THEN JNumber(Len(node.items))
    ELSE node.items[CHOOSE i \in 1..Len(node.items) : ToString(i - 1) = key]

\* node[ key ] of an object or array: undefined when it has no such property
Member(node, key) ==
    IF hasOwnProperty(node, key) THEN Prop(node, key) ELSE JUndefined

\* relation in object (the object has no prototype keys among the names used here)
In(key, v) == v.type = "object" /\ key \in DOMAIN v.props

RECURSIVE pathWalk(_, _, _)
\* the while loop of path(): an empty key ends the walk at the current node
pathWalk(node, pathArr, optionalDefault) ==
    IF pathArr = <<>> \/ Head(pathArr) = "" THEN node
    ELSE IF hasOwnProperty(node, Head(pathArr))
         THEN pathWalk(Prop(node, Head(pathArr)), Tail(pathArr), optionalDefault)
         ELSE optionalDefault

\* path( obj, thePath, optionalDefault ); thePath is given in pieces
path(obj, thePath, optionalDefault) ==
    pathWalk(obj, Split(thePath, "."), optionalDefault)

-----------------------------------------------------------------------------
(* Headers.                                                                *)

ACCEPT == "application/hal+json, application/json;q=0.8"
DEFAULT_SAFE_HEADERS == << <<"accept", ACCEPT>> >>
DEFAULT_UNSAFE_HEADERS ==
    << <<"accept", ACCEPT>>, <<"content-type", "application/json">> >>
DEFAULT_PATCH_HEADERS ==
    << <<"accept", ACCEPT>>, <<"content-type", "application/json-patch+json">> >>

\* Object.keys( o ): the keys in insertion order
Keys(o) == [i \in 1..Len(o) |-> o[i][1]]

HasKey(o, k) == \E i \in 1..Len(o) : o[i][1] = k

\* o[ k ]
At(o, k) == o[CHOOSE i \in 1..Len(o) : o[i][1] = k][2]

\* o[ k ] = v: an existing key keeps its place, a new key is added last
SetKey(o, k, v) ==
    IF HasKey(o, k)
    THEN [i \in 1..Len(o) |-> IF o[i][1] = k THEN <<k, v>> ELSE o[i]]
    ELSE Append(o, <<k, v>>)

RECURSIVE Spread(_, _)
\* { ...a, ...b }
Spread(a, b) ==
    IF b = <<>> THEN a ELSE Spread(SetKey(a, Head(b)[1], Head(b)[2]), Tail(b))

\* the key/value mapping of an object, whatever the order of its keys
Mapping(o) == {o[i] : i \in 1..Len(o)}

\* The header names used by the model, ordered as Array.prototype.sort orders
\* strings (by UTF-16 code unit: upper case letters before lower case ones).
HeaderNameOrder ==
    <<"Accept", "X-A", "accept", "content-type", "x-a", "x-b">>

\* Array.prototype.sort() of distinct header names
sort(keys) == SelectSeq(HeaderNameOrder, LAMBDA k : k \in Range(keys))

\* String.prototype.toLowerCase() of a header name
toLowerCase(k) ==
    IF k = "X-A" THEN "x-a" ELSE IF k = "Accept" THEN "accept" ELSE k

createHeaders(method, localHeaders) ==
    LET defaultHeaders ==
            IF method = "GET" THEN DEFAULT_SAFE_HEADERS
            ELSE IF method = "PATCH" THEN DEFAULT_PATCH_HEADERS
            ELSE DEFAULT_UNSAFE_HEADERS
    IN  Spread(Spread(defaultHeaders, globalOptions.headers), localHeaders)

RECURSIVE cacheKeyReduce(_, _, _, _)
\* the reduce of createCacheKey over the sorted keys
cacheKeyReduce(acc, keys, index, headers) ==
    IF keys = <<>> THEN acc
    ELSE cacheKeyReduce(
             acc \o (IF index # 0 THEN "_" ELSE "") \o Head(keys) \o "="
                 \o At(headers, Head(keys)),
             Tail(keys), index + 1, headers)

\* a createCacheKey that forgets to sort the keys
createCacheKeyUnsorted(url, headers) ==
    cacheKeyReduce(url \o "@", Keys(headers), 0, headers)

createCacheKey(url, headers) ==
    cacheKeyReduce(url \o "@", sort(Keys(headers)), 0, headers)

RECURSIVE lowerCaseKeys(_, _)
\* the forEach of doFetch: lcHeaders[ key.toLowerCase() ] = headers[ key ]
lowerCaseKeys(lcHeaders, headers) ==
    IF headers = <<>> THEN lcHeaders
    ELSE lowerCaseKeys(SetKey(lcHeaders, toLowerCase(Head(headers)[1]), Head(headers)[2]),
                       Tail(headers))

\* the url of a string or of a representation; "" stands for no url (a throw)
\* an extractUrl that takes the text of whatever it is given as the url
extractUrlOfAny(urlOrHalRepresentation) ==
    IF urlOrHalRepresentation.type = "string" /\ urlOrHalRepresentation.value # ""
    THEN urlOrHalRepresentation.value
    ELSE "undefined"

extractUrl(urlOrHalRepresentation) ==
    LET url == IF urlOrHalRepresentation.type = "string"
               THEN urlOrHalRepresentation
               ELSE path(urlOrHalRepresentation,
                         <<"_links", ".", "self", ".", "href">>, JNull)
    IN  IF Truthy(url) THEN url.value ELSE ""

-----------------------------------------------------------------------------
(* The state of the client as one record, so that an operation that calls  *)
(* another one (follow calls get, put, ...) is the composition of both.    *)

Cur ==
    [cache |-> getPromiseCache, tail |-> continuationPromise, promises |-> promises,
     fetches |-> fetches, objects |-> objects, calls |-> calls, invoked |-> invoked,
     logged |-> logged]

Install(s) ==
    /\ getPromiseCache' = s.cache
    /\ continuationPromise' = s.tail
    /\ promises' = s.promises
    /\ fetches' = s.fetches
    /\ objects' = s.objects
    /\ calls' = s.calls
    /\ invoked' = s.invoked
    /\ logged' = s.logged
    /\ UNCHANGED globalOptions

\* an entry of the log: the function called (logError or logDebug), what the
\* message says and the values it names
Log(fn, what, about) == [fn |-> fn, what |-> what, about |-> about]

\* logError( 'Tried to make a request without valid url. ...', urlOrHalRepresentation )
NoUrlLog(urlOrHalRepresentation) == Log("logError", "no-url", urlOrHalRepresentation)

\* values a promise settles with
NoValue == [t |-> "none"]
ObjectRef(id) == [t |-> "object", id |-> id]
\* the error fetch rejects with when transport call f fails
NetworkError(f) == [t |-> "error", fetch |-> f]
\* the Error thrown by extractUrl
NoUrlError == [t |-> "throw", what |-> "Tried to make a request without valid url"]
\* the TypeError of reading a property of undefined
TypeError == [t |-> "throw", what |-> "TypeError"]

\* a new pending promise, extended with `on` by extendResponsePromise
NewPromise(kind) ==
    [kind |-> kind, state |-> "pending", value |-> NoValue,
     fetch |-> 0,          \* the transport call whose outcome settles it
     key |-> "",           \* get: the cacheKey of removeFromCache
     pred |-> 0,           \* queued unsafe request: the promise next() waits for
     request |-> <<>>,     \* queued unsafe request: the arguments of doFetch
     subs |-> <<>>,        \* allSettled: the promises given
     finished |-> <<>>,    \* allSettled: finished[ index ]
     waitingFor |-> 0,     \* allSettled: waitingFor
     failed |-> FALSE,     \* allSettled: failed
     done |-> {},          \* allSettled: the indices whose doneCallback has run
     src |-> 0,            \* on: the promise `on` was called on
     handlers |-> <<>>,    \* on: the handlers given
     resolvedWith |-> 0]   \* on: the promise the handler returned

Pending(s) == {p \in 1..Len(s.promises) : s.promises[p].state = "pending"}

\* { ...globalOptions.fetchInit, ...localInit } without the keys that createInit
\* sets or deletes itself
mergedInit(localInit) ==
    SelectSeq(Spread(globalOptions.fetchInit, localInit),
              LAMBDA entry : entry[1] \notin {"method", "headers", "body"})

\* createInit without method and headers, which doFetch passes on their own
createInit(localInit, bodyObject) ==
    [init |-> mergedInit(localInit),
     body |-> IF bodyObject = JUndefined THEN JUndefined
              ELSE [type |-> "json", of |-> bodyObject]]

\* doFetch: calls fetch for promise `owner`; the new transport call is in flight
doFetch(s, url, options, method, bodyObject, owner) ==
    LET headers == createHeaders(method, options.headers)
        config == createInit(options.fetchInit, bodyObject)
    IN  [s EXCEPT !.fetches = Append(@,
            [url |-> url, method |-> method,
             headers |-> lowerCaseKeys(<<>>, headers),
             init |-> config.init, body |-> config.body,
             state |-> "inflight", promise |-> owner])]

\* an entry of the history of API calls
Call(op, s, url, options, headers, promise, fetch) ==
    [op |-> op, url |-> url, given |-> options.headers, headers |-> headers,
     fetchInit |-> options.fetchInit,
     promise |-> promise, fetch |-> fetch, pending |-> Pending(s)]

\* a cache key that tells the fetchInit of the call as well
getCacheKeyWithInit(url, options) ==
    cacheKeyReduce(createCacheKey(url, createHeaders("GET", options.headers)),
                   Keys(options.fetchInit), 1, options.fetchInit)

\* a verb call that, having thrown, forgets the pending gets and the queue
threwAndReset(s, op, urlOrHalRepresentation, options) ==
    [s EXCEPT !.logged = Append(@, NoUrlLog(urlOrHalRepresentation)),
              !.calls = Append(@, Call(op, s, "", options, <<>>, 0, 0)),
              !.cache = <<>>,
              !.tail = 0]

\* the state after a verb call for which extractUrl found no url: the error is
\* logged and thrown before the verb has done anything
threw(s, op, urlOrHalRepresentation, options) ==
    [s EXCEPT !.logged = Append(@, NoUrlLog(urlOrHalRepresentation)),
              !.calls = Append(@, Call(op, s, "", options, <<>>, 0, 0))]

\* createCacheKey( url, createHeaders( 'GET', options.headers ) ) of get
getCacheKey(url, options) ==
    createCacheKey(url, createHeaders("GET", options.headers))

\* get( urlOrHalRepresentation, optionalOptions ): the state after the call and the
\* promise returned, 0 when the call throws
get(s, urlOrHalRepresentation, options) ==
    LET url == extractUrl(urlOrHalRepresentation)
        headers == createHeaders("GET", options.headers)
        cacheKey == getCacheKey(url, options)
        p == Len(s.promises) + 1
        f == Len(s.fetches) + 1
        fetched == doFetch(s, url, options, "GET", JUndefined, p)
    IN  IF url = ""
        THEN [s |-> threw(s, "get", urlOrHalRepresentation, options),
              ret |-> 0]
        ELSE IF cacheKey \in DOMAIN s.cache
        THEN [s |-> [s EXCEPT !.calls =
                        Append(@, Call("get", s, url, options, headers, s.cache[cacheKey], 0))],
              ret |-> s.cache[cacheKey]]
        ELSE [s |-> [fetched EXCEPT
                        !.promises = Append(@, [NewPromise("get") EXCEPT
                                                   !.fetch = f, !.key = cacheKey]),
                        !.cache = (cacheKey :> p) @@ @,
                        !.calls = Append(@, Call("get", s, url, options, headers, p, f))],
              ret |-> p]

\* a response the transport delivers for call f
Response(f, status, body) ==
    [class |-> "response", status |-> status, body |-> body, info |-> <<>>,
     items |-> <<>>, fetch |-> f, unhandledOn |-> FALSE, bodyPromise |-> FALSE,
     textCalls |-> 0, json |-> JUndefined, transformed |-> 0, via |-> 0]

\* globalOptions.responseTransformer( response ): the state after the call and
\* the value returned.  The default returns what it is given; the transformer
\* 'stamp' of the model returns a changed copy of a response, which holds in `via`
\* the response it was made from, and any other value wrapped.  `transformed`
\* counts the calls made for a response.
responseTransformer(s, response) ==
    LET called == IF response.t = "object"
                  THEN [s EXCEPT !.objects[response.id].transformed = @ + 1]
                  ELSE s
    IN  IF globalOptions.responseTransformer = "stamp"
        THEN IF response.t = "object"
             THEN [s |-> [called EXCEPT !.objects =
                             Append(@, [s.objects[response.id] EXCEPT
                                           !.via = response.id])],
                   ret |-> ObjectRef(Len(s.objects) + 1)]
             ELSE [s |-> called, ret |-> [t |-> "stamped", of |-> response]]
        ELSE [s |-> called, ret |-> response]

\* a verb that settles with the response as fetch gave it
untransformed(s, response) == [s |-> s, ret |-> response]

\* the value a verb of the given kind settles with when fetch fulfilled: get and
\* the unsafe verbs pass the response to the transformer, head does not
fulfilledValue(s, kind, response) ==
    IF kind \in {"get", "unsafe"} THEN responseTransformer(s, response)
    ELSE untransformed(s, response)

\* the value a verb of the given kind rejects with when fetch rejected: only the
\* unsafe verbs pass it to the transformer
rejectedValue(s, kind, response) ==
    IF kind = "unsafe" THEN responseTransformer(s, response)
    ELSE untransformed(s, response)

\* a removeFromCache that empties the cache
removeEveryEntry(cache, cacheKey) == [k \in {} |-> cache[k]]

\* delete getPromiseCache[ cacheKey ]
removeFromCache(cache, cacheKey) ==
    [k \in DOMAIN cache \ {cacheKey} |-> cache[k]]

\* a removeFromCache that is attached for fulfilment only
removeFromCacheOnFulfil(cache, cacheKey, fulfilled) ==
    IF fulfilled THEN removeFromCache(cache, cacheKey) ELSE cache

\* get's reaction to the settling of its promise: removeFromCache, the first
\* reaction attached to the promise, runs before any reaction of a caller.
getSettled(cache, cacheKey, fulfilled) ==
    removeFromCache(cache, cacheKey)

\* a head that goes through the cache of get
headThroughCache(s, urlOrHalRepresentation, options) ==
    LET made == get(s, urlOrHalRepresentation, options)
    IN  [s |-> [made.s EXCEPT !.calls[Len(made.s.calls)].op = "head"],
         ret |-> made.ret]

\* head( urlOrHalRepresentation, optionalOptions )
head(s, urlOrHalRepresentation, options) ==
    LET url == extractUrl(urlOrHalRepresentation)
        p == Len(s.promises) + 1
        f == Len(s.fetches) + 1
        fetched == doFetch(s, url, options, "HEAD", JUndefined, p)
    IN  IF url = ""
        THEN [s |-> threw(s, "head", urlOrHalRepresentation, options),
              ret |-> 0]
        ELSE [s |-> [fetched EXCEPT
                        !.promises = Append(@, [NewPromise("head") EXCEPT !.fetch = f]),
                        !.calls = Append(@, Call("head", s, url, options,
                                                 createHeaders("HEAD", options.headers),
                                                 p, f))],
              ret |-> p]

\* unsafeRequest never chains a request to the tail of the queue
neverQueued(s) == FALSE

\* unsafeRequest chains the request to continuationPromise
queued(s) == globalOptions.queueUnsafeRequests = TRUE /\ s.tail # 0

\* unsafeRequest( method, urlOrHalRepresentation, optionalOptions, optionalBody )
\* the default {} of optionalBody stands in for a body that is undefined
unsafeRequest(s, method, urlOrHalRepresentation, options, body) ==
    LET url == extractUrl(urlOrHalRepresentation)
        optionalBody == IF body = JUndefined THEN JObject(NoProps) ELSE body
        headers == createHeaders(method, options.headers)
        p == Len(s.promises) + 1
        f == Len(s.fetches) + 1
        fetched == doFetch(s, url, options, method, optionalBody, p)
        tail == IF globalOptions.queueUnsafeRequests = TRUE THEN p ELSE s.tail
    IN  IF url = ""
        THEN [s |-> threw(s, method, urlOrHalRepresentation, options),
              ret |-> 0]
        ELSE IF queued(s)
        THEN \* continuationPromise.then( next, next )
             [s |-> [s EXCEPT
                        !.promises = Append(@, [NewPromise("unsafe") EXCEPT
                            !.pred = s.tail,
                            !.request = <<url, options, method, optionalBody>>]),
                        !.tail = tail,
                        !.calls = Append(@, Call(method, s, url, options, headers, p, 0))],
              ret |-> p]
        ELSE \* next()
             [s |-> [fetched EXCEPT
                        !.promises = Append(@, [NewPromise("unsafe") EXCEPT !.fetch = f]),
                        !.tail = tail,
                        !.calls = Append(@, Call(method, s, url, options, headers, p, f))],
              ret |-> p]

put(s, urlOrHalRepresentation, body, options) ==
    unsafeRequest(s, "PUT", urlOrHalRepresentation, options, body)

post(s, urlOrHalRepresentation, body, options) ==
    unsafeRequest(s, "POST", urlOrHalRepresentation, options, body)

patch(s, urlOrHalRepresentation, body, options) ==
    unsafeRequest(s, "PATCH", urlOrHalRepresentation, options, body)

del(s, urlOrHalRepresentation, body, options) ==
    unsafeRequest(s, "DELETE", urlOrHalRepresentation, options, body)

\* a queue whose requests run after a fulfilled predecessor only
WaitingForFulfilled(s) ==
    {p \in 1..Len(s.promises) :
        /\ s.promises[p].kind = "unsafe" /\ s.promises[p].fetch = 0
        /\ s.promises[p].state = "pending"
        /\ s.promises[s.promises[p].pred].state = "fulfilled"}

\* the queued requests whose predecessor has settled: their next() may run
Waiting(s) ==
    {p \in 1..Len(s.promises) :
        /\ s.promises[p].kind = "unsafe" /\ s.promises[p].fetch = 0
        /\ s.promises[p].state = "pending"
        /\ s.promises[s.promises[p].pred].state # "pending"}

\* a next that is attached for fulfilment only: the rejection of the
\* predecessor passes to the promise of the request
nextUnlessRejected(s, p) ==
    LET r == s.promises[p].request
        pred == s.promises[s.promises[p].pred]
        fetched == doFetch(s, r[1], r[2], r[3], r[4], p)
    IN  IF pred.state = "rejected"
        THEN [s EXCEPT !.promises[p].state = "rejected",
                       !.promises[p].value = pred.value]
        ELSE [fetched EXCEPT !.promises[p].fetch = Len(s.fetches) + 1]

\* next() as the reaction to the settling of the predecessor: doFetch is called
next(s, p) ==
    LET r == s.promises[p].request
        fetched == doFetch(s, r[1], r[2], r[3], r[4], p)
    IN  [fetched EXCEPT !.promises[p].fetch = Len(s.fetches) + 1]

-----------------------------------------------------------------------------
(* Settling of transport calls.                                            *)

\* the pending promises that were resolved with a promise of ps: the promise of
\* follow by request( href ).then( resolve, reject ), the promise of on by a
\* handler that returned a promise
ResolvedWith(s, ps) ==
    {q \in Pending(s) :
        \/ s.promises[q].kind = "follow" /\ s.promises[q].src \in ps
        \/ s.promises[q].kind = "on" /\ s.promises[q].resolvedWith \in ps}

RECURSIVE Followers(_, _)
\* the promises that settle when the promises ps settle
Followers(s, ps) ==
    IF ResolvedWith(s, ps) \subseteq ps THEN ps
    ELSE Followers(s, ps \cup ResolvedWith(s, ps))

\* promise p settles with `value`, and so does every promise that was resolved
\* with p
Settle(s, p, state, value) ==
    [s EXCEPT !.promises =
        [q \in DOMAIN @ |->
            IF q \in Followers(s, {p})
            THEN [@[q] EXCEPT !.state = state, !.value = value]
            ELSE @[q]]]

\* promise p settles with the value of the transformer call `made`
settleWith(p, state, made) == Settle(made.s, p, state, made.ret)

\* fetch fulfils transport call f with a response
fetchFulfilled(s, f, status, body) ==
    LET p == s.fetches[f].promise
        r == Len(s.objects) + 1
        t == [s EXCEPT !.fetches[f].state = "fulfilled",
                       !.objects = Append(@, Response(f, status, body))]
        u == settleWith(p, "fulfilled",
                        fulfilledValue(t, s.promises[p].kind, ObjectRef(r)))
    IN  IF s.promises[p].kind = "get"
        THEN [u EXCEPT !.cache = getSettled(@, s.promises[p].key, TRUE)]
        ELSE u

\* fetch rejects transport call f (a network error)
fetchRejected(s, f) ==
    LET p == s.fetches[f].promise
        t == [s EXCEPT !.fetches[f].state = "rejected"]
        u == settleWith(p, "rejected",
                        rejectedValue(t, s.promises[p].kind, NetworkError(f)))
    IN  IF s.promises[p].kind = "get"
        THEN [u EXCEPT !.cache = getSettled(@, s.promises[p].key, FALSE)]
        ELSE u

InFlight == {f \in 1..Len(fetches) : fetches[f].state = "inflight"}

-----------------------------------------------------------------------------
(* on: the dispatch of a response to a status handler.                     *)
(* A handlers object is the sequence of its <<key, handler>> pairs in the  *)
(* order of Object.keys; a key is given by its pieces, <<"200", "|", "404">>*)
(* for '200|404'.  A handler is named by a string and returns the body it   *)
(* is given.                                                               *)

STATUS_NOREL == JChars(<<"n", "o", "r", "e", "l">>)

\* the status of a list of responses that differ in status
XXX == JChars(<<"x", "x", "x">>)

NoHandler == ""

\* JSON.stringify( data ): undefined has no JSON text
stringify(data) == IF data = JUndefined THEN JUndefined ELSE JsonText(data)

\* a parseJson that gives a text that is no JSON back as a string
parseJsonOrText(json) == IF json.type = "json" THEN json.of ELSE JString("text")

\* parseJson( json ): null for a text that is no JSON
parseJson(json) == IF json.type = "json" THEN json.of ELSE JNull

\* body ? parseJson( body ) : null
parseBody(body) ==
    IF body = JUndefined \/ body = EmptyText THEN JNull ELSE parseJson(body)

RECURSIVE expandKeyParts(_, _, _)
\* keyParts.forEach( keyPart => { tmp[ keyPart ] = value; } )
expandKeyParts(tmp, keyParts, value) ==
    IF keyParts = <<>> THEN tmp
    ELSE expandKeyParts(SetKey(tmp, Head(keyParts), value), Tail(keyParts), value)

RECURSIVE expandHandlersFrom(_, _)
expandHandlersFrom(tmp, handlers) ==
    IF handlers = <<>> THEN tmp
    ELSE expandHandlersFrom(
             expandKeyParts(tmp, Split(Head(handlers)[1], "|"), Head(handlers)[2]),
             Tail(handlers))

\* an expandHandlers that keeps every key as it is written
expandHandlersWhole(handlers) ==
    [i \in 1..Len(handlers) |-> <<Text(handlers[i][1]), handlers[i][2]>>]

\* expandHandlers( handlers )
expandHandlers(handlers) == expandHandlersFrom(<<>>, handlers)

RECURSIVE Digits(_)
\* the decimal digits of a natural number
Digits(n) ==
    IF n < 10 THEN <<ToString(n)>> ELSE Append(Digits(n \div 10), ToString(n % 10))

\* `${status}` by its characters
statusStr(status) ==
    IF status.type = "number" THEN Digits(status.value)
    ELSE IF status.type = "undefined"
    THEN <<"u", "n", "d", "e", "f", "i", "n", "e", "d">>
    ELSE status.chars

\* str.substr( 0, length )
substr(str, length) == SubSeq(str, 1, IF Len(str) < length THEN Len(str) ELSE length)

\* the keys tried when 'norel' is a status like any other
statusKeysAlike(status) ==
    <<Text(statusStr(status)),
      Text(substr(statusStr(status), 2)) \o "x",
      Text(substr(statusStr(status), 1)) \o "xx",
      "xxx">>

\* the keys tried for a status, most specific first
statusKeys(status) ==
    IF status = STATUS_NOREL
    THEN <<Text(STATUS_NOREL.chars)>>
    ELSE <<Text(statusStr(status)),
           Text(substr(statusStr(status), 2)) \o "x",
           Text(substr(statusStr(status), 1)) \o "xx",
           "xxx">>

RECURSIVE firstIn(_, _)
\* the handler of the first of the keys that is in handlers
firstIn(keys, handlers) ==
    IF keys = <<>> THEN NoHandler
    ELSE IF HasKey(handlers, Head(keys)) THEN At(handlers, Head(keys))
    ELSE firstIn(Tail(keys), handlers)

\* findBestMatchingStatusHandler( status, handlers, globalHandlers )
findBestMatchingStatusHandler(status, handlers, globalHandlers) ==
    LET localHandlers == expandHandlers(handlers)
    IN  IF firstIn(statusKeys(status), localHandlers) # NoHandler
        THEN firstIn(statusKeys(status), localHandlers)
        ELSE firstIn(statusKeys(status), globalHandlers)

\* const globalOnHandlers = expandHandlers( globalOptions.on )
globalOnHandlers == expandHandlers(globalOptions.on)

\* an object made by the client or the transport: a response, or a list of
\* settled values
Object(class, status, body, info, items, f) ==
    [class |-> class, status |-> status, body |-> body, info |-> info,
     items |-> items, fetch |-> f, unhandledOn |-> FALSE, bodyPromise |-> FALSE,
     textCalls |-> 0, json |-> JUndefined, transformed |-> 0, via |-> 0]

\* the status of a list of responses is always the status of its first element
firstStatus(statuses) == statuses[1]

\* the status of a non-empty list of responses
commonStatus(statuses) ==
    IF \A i \in 1..Len(statuses) : statuses[i] = statuses[1]
    THEN statuses[1] ELSE XXX

\* an object or array that a handler returned and that the next on of the chain
\* is given in the place of a response
ValueObject(v) ==
    [Object("value", JUndefined, JUndefined, <<>>, <<>>, 0) EXCEPT !.json = v]

\* the outcome of an expression that throws a TypeError
Thrown == [type |-> "throw"]

\* _.status of an element of a list that is no response
statusOfElement(element) ==
    IF hasOwnProperty(element, "status") THEN Prop(element, "status") ELSE JUndefined

RECURSIVE everyStatus(_, _)
\* response.every( _ => _.status === status ), which throws at an element that is
\* null or undefined
everyStatus(items, status) ==
    IF items = <<>> THEN "true"
    ELSE IF Head(items).type \in {"null", "undefined"} THEN "throw"
    ELSE IF statusOfElement(Head(items)) # status THEN "false"
    ELSE everyStatus(Tail(items), status)

\* the status of a value that is no response: an object has the status it holds
\* as a number, a list the status its elements hold
valueStatus(v) ==
    IF Array_isArray(v)
    THEN IF v.items = <<>> THEN JNumber(200)
         ELSE IF everyStatus(v.items, statusOfElement(v.items[1])) = "throw" THEN Thrown
         ELSE IF everyStatus(v.items, statusOfElement(v.items[1])) = "true"
              THEN statusOfElement(v.items[1])
         ELSE XXX
    ELSE IF Truthy(Member(v, "status")) THEN Member(v, "status") ELSE XXX

\* the status createCallStatusHandler dispatches on
dispatchStatus(s, response) ==
    IF response.class = "array"
    THEN IF Len(response.items) > 0
         THEN commonStatus([i \in 1..Len(response.items) |->
                               s.objects[response.items[i].id].status])
         ELSE JNumber(200)
    ELSE IF response.class = "value" THEN valueStatus(response.json)
    ELSE IF Truthy(response.status) THEN response.status ELSE XXX

\* the responses whose text() is called for the body of object r
TextRead(s, r) ==
    IF s.objects[r].class = "array"
    THEN [i \in 1..Len(s.objects[r].items) |-> s.objects[r].items[i].id]
    ELSE IF s.objects[r].class = "value" THEN <<>>
    ELSE <<r>>

\* a dispatch that calls text() whether or not the body was read before
readTextAgain(s, r) ==
    [s EXCEPT !.objects =
        [i \in DOMAIN @ |->
            [@[i] EXCEPT
                !.bodyPromise = IF i = r THEN TRUE ELSE @,
                !.textCalls = @ + Cardinality({k \in 1..Len(TextRead(s, r)) :
                                                   TextRead(s, r)[k] = i})]]]

\* response.__bodyPromise = ...: text() is called once for each response
readText(s, r) ==
    IF s.objects[r].bodyPromise THEN s
    ELSE [s EXCEPT !.objects =
            [i \in DOMAIN @ |->
                [@[i] EXCEPT
                    !.bodyPromise = IF i = r THEN TRUE ELSE @,
                    !.textCalls = @ + Cardinality({k \in 1..Len(TextRead(s, r)) :
                                                       TextRead(s, r)[k] = i})]]]

\* the first argument of the handler
parsedResult(s, r) ==
    IF s.objects[r].class = "array"
    THEN JArray([i \in 1..Len(s.objects[r].items) |->
                    parseBody(s.objects[s.objects[r].items[i].id].body)])
    ELSE IF s.objects[r].class = "value" THEN JArray(<<>>)
    ELSE parseBody(s.objects[r].body)

-----------------------------------------------------------------------------
(* follow, followAll and allSettled.  A relation name is given by its       *)
(* pieces, <<"a", ".", "b">> for 'a.b', as path() takes it apart.           *)

\* the options of follow with its defaults
FollowOptions(followAllFlag, method, headers) ==
    [followAll |-> followAllFlag, headers |-> headers, fetchInit |-> <<>>,
     vars |-> <<>>, method |-> method, body |-> JUndefined]

\* a list of settled values, or of responses
ArrayObject(items) == Object("array", JUndefined, JUndefined, <<>>, items, 0)

\* { status, headers: {}, text: () => Promise.resolve( JSON.stringify( data ) ) }
syntheticResponse(status, info, data) ==
    Object("response", status, stringify(data), info, <<>>, 0)

\* expandPossibleVars( link, vars ): the links of the model are not templated and
\* their hrefs hold no template expression, which a template expands to itself
expandPossibleVars(link, theVars) == Member(link, "href")

\* request( href ) of follow
request(s, href, options) ==
    LET requestOptions == [headers |-> options.headers, fetchInit |-> options.fetchInit]
    IN  CASE options.method = "GET" -> get(s, href, requestOptions)
          [] options.method = "HEAD" -> head(s, href, requestOptions)
          [] options.method = "PUT" -> put(s, href, options.body, requestOptions)
          [] options.method = "POST" -> post(s, href, options.body, requestOptions)
          [] options.method = "PATCH" -> patch(s, href, options.body, requestOptions)
          [] options.method = "DELETE" -> del(s, href, options.body, requestOptions)

RECURSIVE requestAll(_, _, _, _)
RECURSIVE requestRest(_, _, _, _)
\* links.map( link => request( expandPossibleVars( link, options.vars ) ) ): the
\* promises made, and the error thrown by the first link that is no object or
\* has no url
requestAll(s, links, options, made) ==
    IF links = <<>> THEN [s |-> s, ret |-> made, thrown |-> NoValue]
    ELSE IF Head(links).type \in {"undefined", "null"}
    THEN [s |-> s, ret |-> made, thrown |-> TypeError]
    ELSE requestRest(links, options, made,
                     request(s, expandPossibleVars(Head(links), options.vars), options))

\* the links after the first one, whose request returned r
requestRest(links, options, made, r) ==
    IF r.ret = 0
    THEN [s |-> r.s, ret |-> made, thrown |-> NoUrlError]
    ELSE requestAll(r.s, Tail(links), options, Append(made, r.ret))

\* finished[ index ] = result, where results are stored in the order they arrive
storeNext(finished, index, result) ==
    [finished EXCEPT ![CHOOSE i \in 1..Len(finished) :
                          /\ finished[i] = NoValue
                          /\ \A j \in 1..(i - 1) : finished[j] # NoValue] = result]

\* finished[ index ] = result
storeFinished(finished, index, result) == [finished EXCEPT ![index] = result]

\* allSettled( promises ): the promise returned
allSettled(s, subs) ==
    [s |-> [s EXCEPT !.promises = Append(@, [NewPromise("allSettled") EXCEPT
                !.subs = subs,
                !.finished = [i \in 1..Len(subs) |-> NoValue],
                !.waitingFor = Len(subs)])],
     ret |-> Len(s.promises) + 1]

\* doneCallback( rejected )( result ) for promises[ index ] of allSettled promise a
doneCallback(s, a, index) ==
    LET sub == s.promises[s.promises[a].subs[index]]
        failed == sub.state = "rejected" \/ s.promises[a].failed
        finished == storeFinished(s.promises[a].finished, index, sub.value)
        waitingFor == s.promises[a].waitingFor - 1
        t == [s EXCEPT !.promises[a].failed = failed,
                       !.promises[a].finished = finished,
                       !.promises[a].waitingFor = waitingFor,
                       !.promises[a].done = @ \cup {index}]
        u == [t EXCEPT !.objects = Append(@, ArrayObject(finished))]
    IN  IF waitingFor = 0
        THEN Settle(u, a, IF failed THEN "rejected" ELSE "fulfilled",
                    ObjectRef(Len(u.objects)))
        ELSE t

\* the doneCallbacks that are due: their promise has settled
Done(s) ==
    {c \in (1..Len(s.promises)) \X (1..Len(s.promises)) :
        /\ s.promises[c[1]].kind = "allSettled"
        /\ c[2] \in (1..Len(s.promises[c[1]].subs)) \ s.promises[c[1]].done
        /\ s.promises[s.promises[c[1]].subs[c[2]]].state # "pending"}

RECURSIVE reactions(_)
\* the doneCallbacks attached to a promise that has settled run, in the order in
\* which allSettled attached them
reactions(s) ==
    IF Done(s) = {} THEN s
    ELSE LET c == CHOOSE c \in Done(s) :
                     \A d \in Done(s) : c[1] < d[1] \/ (c[1] = d[1] /\ c[2] <= d[2])
         IN  reactions(doneCallback(s, c[1], c[2]))

\* the entry of follow in the history of calls
FollowCall(s, t, halRepresentation, relation, options, promise) ==
    [op |-> "follow", url |-> "", headers |-> options.headers, promise |-> promise,
     fetch |-> 0, pending |-> Pending(s), halRepresentation |-> halRepresentation,
     relation |-> relation, options |-> options,
     fetched |-> (Len(s.fetches) + 1)..Len(t.fetches)]

\* follow returns a promise that has the given state and value, in state t
followed(s, t, halRepresentation, relation, options, state, value, src) ==
    [s |-> [t EXCEPT
               !.promises = Append(@, [NewPromise("follow") EXCEPT
                                          !.state = state, !.value = value,
                                          !.src = src]),
               !.calls = Append(@, FollowCall(s, t, halRepresentation, relation,
                                              options, Len(t.promises) + 1))],
     ret |-> Len(t.promises) + 1]

\* follow resolved with the promise q: it settles as q does
followedPromise(s, t, halRepresentation, relation, options, q) ==
    followed(s, t, halRepresentation, relation, options,
             t.promises[q].state, t.promises[q].value, q)

\* the branch of follow for an embedded relation
followEmbedded(s, halRepresentation, relation, options) ==
    LET embedded == Member(Member(halRepresentation, "_embedded"), Text(relation))
        all == IF Array_isArray(embedded) THEN embedded.items ELSE <<embedded>>
        data == IF Array_isArray(embedded) THEN Member(embedded, "0") ELSE embedded
        n == Len(s.objects)
        responses == [i \in 1..Len(all) |->
                         syntheticResponse(JNumber(200), <<>>, all[i])]
        list == ArrayObject([i \in 1..Len(all) |-> ObjectRef(n + i)])
    IN  IF options.followAll
        THEN followed(s, [s EXCEPT !.objects = @ \o responses \o <<list>>],
                      halRepresentation, relation, options,
                      "fulfilled", ObjectRef(n + Len(all) + 1), 0)
        ELSE followed(s, [s EXCEPT !.objects =
                                 Append(@, syntheticResponse(JNumber(200), <<>>, data))],
                      halRepresentation, relation, options,
                      "fulfilled", ObjectRef(n + 1), 0)

\* follow after the requests of its links were made: it rejects with what a
\* request threw, or is resolved with the promise of allSettled or of the request
followRequested(s, halRepresentation, relation, options, requests) ==
    IF requests.thrown # NoValue
    THEN followed(s, requests.s, halRepresentation, relation, options,
                  "rejected", requests.thrown, 0)
    ELSE IF options.followAll
    THEN followedPromise(s, allSettled(requests.s, requests.ret).s, halRepresentation,
                         relation, options, allSettled(requests.s, requests.ret).ret)
    ELSE followedPromise(s, requests.s, halRepresentation, relation, options,
                         requests.ret[1])

\* the branch of follow for a linked relation
followLinks(s, halRepresentation, relation, options) ==
    LET linkOrLinks == Member(Member(halRepresentation, "_links"), Text(relation))
        links == IF Array_isArray(linkOrLinks) THEN linkOrLinks.items
                 ELSE <<linkOrLinks>>
        link == IF Array_isArray(linkOrLinks) THEN Member(linkOrLinks, "0")
                ELSE linkOrLinks
    IN  followRequested(s, halRepresentation, relation, options,
                        requestAll(s, IF options.followAll THEN links ELSE <<link>>,
                                   options, <<>>))

\* follow( halRepresentation, relation, optionalOptions )
follow(s, halRepresentation, relation, options) ==
    IF /\ options.method = "GET"
       /\ Truthy(path(halRepresentation, <<"_embedded", ".">> \o relation, JUndefined))
    THEN followEmbedded(s, halRepresentation, relation, options)
    ELSE IF Truthy(path(halRepresentation, <<"_links", ".">> \o relation, JUndefined))
    THEN followLinks(s, halRepresentation, relation, options)
    ELSE followed(s,
            [s EXCEPT !.objects = Append(@, syntheticResponse(STATUS_NOREL,
                [halRepresentation |-> halRepresentation, relation |-> relation],
                JNull))],
            halRepresentation, relation, options,
            "fulfilled", ObjectRef(Len(s.objects) + 1), 0)

\* a followAll that passes its options on as they are
followAllAsGiven(s, halRepresentation, relation, options) ==
    follow(s, halRepresentation, relation, options)

\* followAll( halRepresentation, relation, optionalOptions )
followAll(s, halRepresentation, relation, options) ==
    follow(s, halRepresentation, relation, [options EXCEPT !.followAll = TRUE])

\* canFollow( halRepresentation, relation )
canFollow(halRepresentation, relation) ==
    \/ /\ Truthy(Member(halRepresentation, "_links"))
       /\ In(Text(relation), Member(halRepresentation, "_links"))
    \/ /\ Truthy(Member(halRepresentation, "_embedded"))
       /\ In(Text(relation), Member(halRepresentation, "_embedded"))

\* link.href: reading a property of undefined throws a TypeError, an object
\* without the property gives undefined
hrefOf(link) ==
    IF link.type \in {"undefined", "null"} THEN TypeError ELSE Member(link, "href")

\* firstRelationHref( halRepresentation, relation ); linkOrLinks[ 0 ] of an
\* empty list is undefined
firstRelationHref(halRepresentation, relation) ==
    IF /\ Truthy(Member(halRepresentation, "_links"))
       /\ In(Text(relation), Member(halRepresentation, "_links"))
    THEN LET linkOrLinks == Prop(Member(halRepresentation, "_links"), Text(relation))
         IN  IF Array_isArray(linkOrLinks)
             THEN hrefOf(Member(linkOrLinks, "0"))
             ELSE hrefOf(linkOrLinks)
    ELSE path(halRepresentation,
              <<"_embedded", ".">> \o relation
                  \o <<".", "_links", ".", "self", ".", "href">>,
              JNull)

\* selfLink( halRepresentation )
selfLink(halRepresentation) == firstRelationHref(halRepresentation, <<"self">>)

-----------------------------------------------------------------------------
(* The handlers of the model and the dispatch of on.  A handler is named     *)
(* scope:key after the key it is registered under; its scope tells what it   *)
(* returns: the handlers of the scopes "null" and "void" return null and      *)
(* nothing, the handlers of a scope named after a relation are                *)
(* thenFollow( relation ), and every other handler returns the parsed body    *)
(* it is given.                                                               *)

\* the keys of the handler maps of the model
HandlerKeys ==
    { <<"200">>, <<"404">>, <<"20x">>, <<"2xx">>, <<"4xx">>, <<"xxx">>, <<"norel">>,
      <<"404", "|", "200">>, <<"200", "|", "404">>, <<"norel", "|", "404">> }

\* the names of the handlers of a scope
Scoped(scope) == {scope \o ":" \o Text(key) : key \in HandlerKeys}

\* the relations that the handlers made by thenFollow follow
ThenFollowRelations == { <<"car">>, <<"address">> }

\* thenFollow( relation, optionalOptions )( representation )
thenFollow(s, relation, optionalOptions, representation) ==
    follow(s, representation, relation, optionalOptions)

\* thenFollowAll( relation, optionalOptions )( representation )
thenFollowAll(s, relation, optionalOptions, representation) ==
    followAll(s, representation, relation, optionalOptions)

\* an options object that the application keeps and passes to several calls:
\* it lives among the objects, and a call is given the reference to it
OptionsObject(options) ==
    Object("options", JUndefined, JUndefined, options, <<>>, 0)

\* follow called with the object ref: { ...optionalOptions } copies what it holds
followOf(s, halRepresentation, relation, ref) ==
    follow(s, halRepresentation, relation, s.objects[ref].info)

\* followAll called with the object ref: options = optionalOptions;
\* options.followAll = true writes to the object of the caller
followAllOf(s, halRepresentation, relation, ref) ==
    followOf([s EXCEPT !.objects[ref].info.followAll = TRUE],
             halRepresentation, relation, ref)

\* the functions of thenFollow and thenFollowAll, made with the object ref
thenFollowOf(s, relation, ref, representation) ==
    followOf(s, representation, relation, ref)

thenFollowAllOf(s, relation, ref, representation) ==
    followAllOf(s, representation, relation, ref)

\* a promise as the value a handler returns
PromiseRef(q) == [type |-> "promise", id |-> q]

\* a handler returns the promise that the call `made` returned
returnedPromise(made) == [s |-> made.s, ret |-> PromiseRef(made.ret)]

\* handler( result, response ): the state after the call and the value returned
handlerCall(s, handler, result) ==
    IF handler \in Scoped("null") THEN [s |-> s, ret |-> JNull]
    ELSE IF handler \in Scoped("void") THEN [s |-> s, ret |-> JUndefined]
    ELSE IF \E relation \in ThenFollowRelations : handler \in Scoped(Text(relation))
    THEN returnedPromise(
             thenFollow(s, CHOOSE rel \in ThenFollowRelations :
                               handler \in Scoped(Text(rel)),
                        FollowOptions(FALSE, "GET", <<>>), result))
    ELSE [s |-> s, ret |-> result]

\* what a promise settles with when a handler returns a value that is no object
Returned(handler, result) == [t |-> "returned", by |-> handler, result |-> result]

\* no promise value is taken as empty
neverFalsy(value) == FALSE

\* a promise value that is falsy: a handler returned null or undefined
Falsy(value) == value.t = "returned" /\ ~Truthy(value.result)

\* the promise of on is fulfilled at once, and not with what the handler returned
resolvedAtOnce(s, o, handler, ret) ==
    Settle(s, o, "fulfilled", Returned(handler, JUndefined))

\* the promise of on is resolved with what the handler returned: it settles as a
\* promise returned does, and is fulfilled with any other value
resolveWith(s, o, handler, ret) ==
    IF ret.type = "promise"
    THEN LET t == [s EXCEPT !.promises[o].resolvedWith = ret.id]
         IN  IF s.promises[ret.id].state = "pending" THEN t
             ELSE Settle(t, o, s.promises[ret.id].state, s.promises[ret.id].value)
    ELSE IF ret.type \in {"object", "array"}
    THEN Settle([s EXCEPT !.objects = Append(@, ValueObject(ret))], o,
                "fulfilled", ObjectRef(Len(s.objects) + 1))
    ELSE Settle(s, o, "fulfilled", Returned(handler, ret))

\* the promise of on is resolved with the value of the handler call `returned`
resolveReturned(o, handler, returned) ==
    resolveWith(returned.s, o, handler, returned.ret)

\* a dispatch that rejects for a status without handler and leaves no mark
unhandledUnmarked(s, o, value, status) ==
    [Settle(s, o, "rejected", value) EXCEPT
        !.logged = Append(@, Log("logError", "unhandled-status",
                                 [status |-> status, response |-> value, by |-> o]))]

\* the branch of createCallStatusHandler for a status without handler: the
\* messages logged, the mark on the response and the rejection
unhandled(s, o, value, status) ==
    LET response == s.objects[value.id]
        messages ==
            IF status = STATUS_NOREL
            THEN << Log("logError", "missing-relation",
                        [relation |-> response.info.relation, by |-> o]),
                    Log("logDebug", "offending-representation",
                        [halRepresentation |-> response.info.halRepresentation,
                         by |-> o]) >>
            ELSE << Log("logError", "unhandled-status",
                        [status |-> status, response |-> value, by |-> o]) >>
    IN  [Settle(s, o, "rejected", value) EXCEPT
            !.objects[value.id].unhandledOn = TRUE,
            !.logged = @ \o messages]

\* response.text is a function: a value a handler returned has no text(), and
\* only for an empty list no text() is called
hasText(response) ==
    response.class # "value" \/ response.json = JArray(<<>>)

\* the branch of createCallStatusHandler for a status with a handler: the body is
\* read, the handler is called and its value resolves the promise of on
handled(s, o, value, status, handler) ==
    LET r == value.id
        read == readText(s, r)
        result == parsedResult(s, r)
        called == [read EXCEPT !.invoked =
                      Append(@, [on |-> o, handler |-> handler, status |-> status,
                                 body |-> result, response |-> value])]
    IN  resolveReturned(o, handler, handlerCall(called, handler, result))

\* the function createCallStatusHandler( statusHandlers ) returns, called for the
\* on promise o with the value its source promise fulfilled with
callStatusHandler(s, o) ==
    LET value == s.promises[s.promises[o].src].value
        response == s.objects[value.id]
        status == dispatchStatus(s, response)
        handler == findBestMatchingStatusHandler(status, s.promises[o].handlers,
                                                 globalOnHandlers)
    IN  IF Falsy(value) THEN Settle(s, o, "fulfilled", Returned(NoHandler, JNull))
        ELSE IF value.t = "returned"
        THEN \* 'status' in response, for a response that is no object
             Settle(s, o, "rejected", TypeError)
        ELSE IF response.unhandledOn THEN Settle(s, o, "rejected", value)
        ELSE IF status = Thrown THEN Settle(s, o, "rejected", TypeError)
        ELSE IF handler = NoHandler THEN unhandled(s, o, value, status)
        ELSE IF ~hasText(response) THEN Settle(s, o, "rejected", TypeError)
        ELSE handled(s, o, value, status, handler)

\* an on that gives a rejection to the handler registered under 'xxx'
rejectionDispatched(s, o) ==
    LET source == s.promises[s.promises[o].src]
        handler == findBestMatchingStatusHandler(XXX, s.promises[o].handlers,
                                                 globalOnHandlers)
    IN  IF source.state = "rejected" /\ handler # NoHandler
        THEN [Settle(s, o, "fulfilled", Returned(handler, JNull)) EXCEPT
                 !.invoked = Append(@, [on |-> o, handler |-> handler, status |-> XXX,
                                        body |-> JNull, response |-> source.value])]
        ELSE IF source.state = "rejected"
        THEN Settle(s, o, "rejected", source.value)
        ELSE callStatusHandler(s, o)

\* promise.then( createCallStatusHandler( handlers ) ): a rejection passes through
onSettled(s, o) ==
    IF s.promises[s.promises[o].src].state = "rejected"
    THEN Settle(s, o, "rejected", s.promises[s.promises[o].src].value)
    ELSE callStatusHandler(s, o)

\* promise.on( handlers )
on(s, p, handlers) ==
    [s |-> [s EXCEPT !.promises = Append(@, [NewPromise("on") EXCEPT
                                                !.src = p, !.handlers = handlers])],
     ret |-> Len(s.promises) + 1]

\* the on promises whose source promise has settled and whose reaction has not
\* run
Dispatchable(s) ==
    {o \in 1..Len(s.promises) :
        /\ s.promises[o].kind = "on" /\ s.promises[o].state = "pending"
        /\ s.promises[o].resolvedWith = 0
        /\ s.promises[s.promises[o].src].state # "pending"}

-----------------------------------------------------------------------------
(* Actions: the calls a user of the client makes, and the events of the    *)
(* transport.                                                              *)

Options(headers) == [headers |-> headers, fetchInit |-> <<>>]

Get(urlOrHalRepresentation, headers) ==
    /\ Len(calls) < MaxCalls
    /\ Install(get(Cur, urlOrHalRepresentation, Options(headers)).s)

Head_(urlOrHalRepresentation, headers) ==
    /\ Len(calls) < MaxCalls
    /\ Install(head(Cur, urlOrHalRepresentation, Options(headers)).s)

Put(urlOrHalRepresentation, body, headers) ==
    /\ Len(calls) < MaxUnsafe
    /\ Install(put(Cur, urlOrHalRepresentation, body, Options(headers)).s)

Post(urlOrHalRepresentation, body, headers) ==
    /\ Len(calls) < MaxUnsafe
    /\ Install(post(Cur, urlOrHalRepresentation, body, Options(headers)).s)

Patch(urlOrHalRepresentation, body, headers) ==
    /\ Len(calls) < MaxUnsafe
    /\ Install(patch(Cur, urlOrHalRepresentation, body, Options(headers)).s)

Del(urlOrHalRepresentation, body, headers) ==
    /\ Len(calls) < MaxUnsafe
    /\ Install(del(Cur, urlOrHalRepresentation, body, Options(headers)).s)

\* the reaction next of a queued request runs
Next_(p) ==
    /\ p \in Waiting(Cur)
    /\ Install(next(Cur, p))

\* promise.on( handlers ) for a promise the client returned
On(p, handlers) ==
    /\ Cardinality({o \in 1..Len(promises) : promises[o].kind = "on"}) < MaxOn
    /\ p \in 1..Len(promises)
    /\ promises[p].kind \in {"get", "head", "unsafe", "follow"}
    /\ Install(on(Cur, p, handlers).s)

\* promise.on( handlers ) for a promise that on returned
ThenOn(o, handlers) ==
    /\ Cardinality({q \in 1..Len(promises) :
                       /\ promises[q].kind = "on"
                       /\ promises[promises[q].src].kind = "on"}) < MaxThen
    /\ o \in 1..Len(promises)
    /\ promises[o].kind = "on"
    /\ Install(on(Cur, o, handlers).s)

\* the function that thenFollow returned is called with a representation
ThenFollow(relation, optionalOptions, representation) ==
    /\ Cardinality({i \in 1..Len(calls) : calls[i].op = "follow"}) < MaxFollow
    /\ Install(thenFollow(Cur, relation, optionalOptions, representation).s)

\* the function that thenFollowAll returned is called with a representation
ThenFollowAll(relation, optionalOptions, representation) ==
    /\ Cardinality({i \in 1..Len(calls) : calls[i].op = "follow"}) < MaxFollow
    /\ Install(thenFollowAll(Cur, relation, optionalOptions, representation).s)

\* the reaction `on` attached to the promise runs
CallStatusHandler(o) ==
    /\ o \in Dispatchable(Cur)
    /\ Install(onSettled(Cur, o))

Follow(halRepresentation, relation, options) ==
    /\ Cardinality({i \in 1..Len(calls) : calls[i].op = "follow"}) < MaxFollow
    /\ Install(follow(Cur, halRepresentation, relation, options).s)

FollowAll(halRepresentation, relation, options) ==
    /\ Cardinality({i \in 1..Len(calls) : calls[i].op = "follow"}) < MaxFollow
    /\ Install(followAll(Cur, halRepresentation, relation, options).s)

\* the transport fulfils call f: the promise of the call settles, and the
\* reactions attached to it by get and by allSettled run
FetchFulfils(f, status, body) ==
    /\ f \in InFlight
    /\ Install(reactions(fetchFulfilled(Cur, f, status, body)))

\* the transport rejects call f
FetchRejects(f) ==
    /\ f \in InFlight
    /\ Install(reactions(fetchRejected(Cur, f)))

-----------------------------------------------------------------------------
(* The inputs of the model.                                                *)

Link(href) == JObject([k \in {"href"} |-> JString(href)])

\* a representation with the given _links and _embedded
Representation(links, embedded) ==
    JObject([k \in {"_links", "_embedded"} |->
                IF k = "_links" THEN JObject(links) ELSE JObject(embedded)])

\* { _links: { self: { href } } }
WithSelf(href) == Representation([k \in {"self"} |-> Link(href)], NoProps)

InitialClient(options) ==
    /\ globalOptions = options
    /\ getPromiseCache = [k \in {} |-> 0]
    /\ continuationPromise = 0
    /\ promises = <<>>
    /\ fetches = <<>>
    /\ objects = <<>>
    /\ calls = <<>>
    /\ invoked = <<>>
    /\ logged = <<>>

ClientOptions(queue, headers, handlers) ==
    [queueUnsafeRequests |-> queue, headers |-> headers, on |-> handlers,
     responseTransformer |-> "identity", fetchInit |-> <<>>]

-----------------------------------------------------------------------------
(* SpecCache: get calls and their transport calls.                         *)

\* two urls, one of them also given as a representation with a self link
CacheUrls == {JString("/a"), JString("/b"), WithSelf("/a")}

\* per-call headers: none, and one mapping written in both orders of its keys
CacheHeaders ==
    { <<>>,
      << <<"x-a", "1">>, <<"x-b", "2">> >>,
      << <<"x-b", "2">>, <<"x-a", "1">> >> }

\* the headers option of create(): none, or one that the per-call headers override
CacheGlobalHeaders == { <<>>, << <<"x-a", "0">> >> }

InitCache ==
    \E h \in CacheGlobalHeaders : InitialClient(ClientOptions(FALSE, h, <<>>))

NextCache ==
    \/ \E u \in CacheUrls, h \in CacheHeaders : Get(u, h)
    \/ \E f \in InFlight : FetchFulfils(f, JNumber(200), JsonText(JObject(NoProps)))
    \/ \E f \in InFlight : FetchRejects(f)

SpecCache == InitCache /\ [][NextCache]_vars


\* get calls that returned a promise
GetCalls == {i \in 1..Len(calls) : calls[i].op = "get" /\ calls[i].promise # 0}

\* the (url, merged headers) fingerprint of two get calls is the same
SameRequest(i, j) ==
    /\ calls[i].url = calls[j].url
    /\ Mapping(calls[i].headers) = Mapping(calls[j].headers)

\* C1: a get made while an earlier get with the same url and an equal merged header
\* mapping (whatever the order of its keys) is pending returns the promise of the
\* earlier call and calls fetch no further time, and no two transport GETs of one
\* (url, merged headers) fingerprint are in flight at once.
C1_PendingGetIsShared ==
    /\ \A i, j \in GetCalls :
          (i < j /\ SameRequest(i, j) /\ calls[i].promise \in calls[j].pending)
              => (calls[j].promise = calls[i].promise /\ calls[j].fetch = 0)
    /\ \A i, j \in GetCalls :
          (i # j /\ SameRequest(i, j) /\ calls[i].fetch \in InFlight
                 /\ calls[j].fetch \in InFlight)
              => calls[i].fetch = calls[j].fetch

\* a pending get was shared by a call that wrote the same headers in another order
C1_Witness ==
    \E i, j \in GetCalls :
        /\ i < j /\ SameRequest(i, j)
        /\ calls[i].headers # calls[j].headers
        /\ calls[i].promise \in calls[j].pending
        /\ calls[j].promise = calls[i].promise

\* get call j is the first one of its fingerprint made after the promise of call i
\* has settled
NextAfterSettled(i, j) ==
    /\ i < j /\ SameRequest(i, j)
    /\ calls[i].promise \notin calls[j].pending
    /\ \A k \in GetCalls :
          (i < k /\ k < j /\ SameRequest(i, k)) => calls[i].promise \in calls[k].pending

PendingGets ==
    {p \in 1..Len(promises) : promises[p].kind = "get" /\ promises[p].state = "pending"}

\* the cache holds the pending promises of get under their keys and nothing
\* else, and the transport call of each of them is in flight
CacheIsPendingGets ==
    /\ DOMAIN getPromiseCache = {promises[p].key : p \in PendingGets}
    /\ \A p \in PendingGets :
          /\ getPromiseCache[promises[p].key] = p
          /\ promises[p].fetch \in InFlight

\* an entry comes with the transport call of a new promise, goes when its
\* promise settles, and is not replaced in between
CacheStep ==
    /\ \A k \in DOMAIN getPromiseCache' \ DOMAIN getPromiseCache :
          /\ Len(promises') = Len(promises) + 1
          /\ Len(fetches') = Len(fetches) + 1
          /\ getPromiseCache'[k] = Len(promises')
          /\ fetches'[Len(fetches')].promise = Len(promises')
    /\ \A k \in DOMAIN getPromiseCache \ DOMAIN getPromiseCache' :
          /\ promises[getPromiseCache[k]].state = "pending"
          /\ promises'[getPromiseCache[k]].state # "pending"
    /\ \A k \in DOMAIN getPromiseCache \cap DOMAIN getPromiseCache' :
          getPromiseCache'[k] = getPromiseCache[k]

-----------------------------------------------------------------------------
(* SpecQueue: put, post, patch and del, with and without the queue.        *)

UnsafeMethods == {"PUT", "POST", "PATCH", "DELETE"}

InitQueue ==
    \E q \in BOOLEAN : InitialClient(ClientOptions(q, <<>>, <<>>))

NextQueue ==
    \/ Put(JString("/a"), JObject(NoProps), <<>>)
    \/ Post(JString("/a"), JObject(NoProps), <<>>)
    \/ Patch(JString("/a"), JObject(NoProps), <<>>)
    \/ Del(JString("/a"), JObject(NoProps), <<>>)
    \/ \E p \in Waiting(Cur) : Next_(p)
    \/ \E f \in InFlight : FetchFulfils(f, JNumber(201), EmptyText)
    \/ \E f \in InFlight : FetchRejects(f)

SpecQueue == InitQueue /\ [][NextQueue]_vars

\* put, post, patch and del calls that returned a promise
UnsafeCalls ==
    {i \in 1..Len(calls) : calls[i].op \in UnsafeMethods /\ calls[i].promise # 0}

UnsafeInFlight == {f \in InFlight : fetches[f].method \in UnsafeMethods}

\* C3: with queueUnsafeRequests, the transport call of a later unsafe call is not
\* made before the promise of every earlier one has settled (fulfilled or
\* rejected), transport calls are made in the order of the calls, and at most one
\* unsafe transport call is in flight.
C3_QueueSerializes ==
    globalOptions.queueUnsafeRequests = TRUE =>
        /\ \A i, j \in UnsafeCalls :
              (i < j /\ promises[calls[j].promise].fetch # 0)
                  => /\ promises[calls[i].promise].state # "pending"
                     /\ promises[calls[i].promise].fetch # 0
                     /\ promises[calls[i].promise].fetch < promises[calls[j].promise].fetch
        /\ Cardinality(UnsafeInFlight) <= 1

\* the queue is on, a request was rejected, the next one fulfilled, and the one
\* after that has its transport call in flight
C3_Witness ==
    /\ globalOptions.queueUnsafeRequests = TRUE
    /\ \E i, j, k \in UnsafeCalls :
          /\ i < j /\ j < k
          /\ promises[calls[i].promise].state = "rejected"
          /\ promises[calls[j].promise].state = "fulfilled"
          /\ promises[calls[k].promise].fetch \in InFlight

\* the response the transport gave for call f
ResponseGiven(f) == CHOOSE r \in 1..Len(objects) : objects[r].fetch = f

\* the promise of unsafe call i is settled as its own transport call was: it
\* is pending while the call is not made or in flight, fulfilled with the
\* response of the call, or rejected with the error of the call
OwnOutcome(i) ==
    LET promise == promises[calls[i].promise]
    IN  CASE promise.state = "pending" ->
                promise.fetch = 0 \/ promise.fetch \in InFlight
          [] promise.state = "fulfilled" ->
                /\ promise.fetch # 0
                /\ fetches[promise.fetch].state = "fulfilled"
                /\ promise.value = ObjectRef(ResponseGiven(promise.fetch))
          [] promise.state = "rejected" ->
                /\ promise.fetch # 0
                /\ fetches[promise.fetch].state = "rejected"
                /\ promise.value = NetworkError(promise.fetch)

\* C40: with queueUnsafeRequests, the promise of every unsafe call settles
\* with the outcome of its own transport call, response or error, and not
\* with the outcome of a request before it in the queue: a request that
\* failed does not reject the promise of the request after it.
C40_OwnOutcome ==
    globalOptions.queueUnsafeRequests = TRUE => \A i \in UnsafeCalls : OwnOutcome(i)

\* the queue is on, a request was rejected with its error, and the request
\* that waited for it was fulfilled with its own response
C40_Witness ==
    /\ globalOptions.queueUnsafeRequests = TRUE
    /\ \E i, j \in UnsafeCalls :
          /\ promises[calls[j].promise].pred = calls[i].promise
          /\ promises[calls[i].promise].state = "rejected"
          /\ promises[calls[i].promise].value = NetworkError(promises[calls[i].promise].fetch)
          /\ promises[calls[j].promise].state = "fulfilled"
          /\ objects[promises[calls[j].promise].value.id].fetch
                = promises[calls[j].promise].fetch

-----------------------------------------------------------------------------
(* SpecOn: on for the responses of get, with local and global handlers.    *)

\* the handlers object { key: handler, ... } of a scope: the handler of a key is
\* named scope:key
Handlers(scope, keys) ==
    [i \in 1..Len(keys) |-> <<keys[i], scope \o ":" \o Text(keys[i])>>]

OnLocalKeys ==
    { <<>>,
      << <<"xxx">> >>,
      << <<"2xx">> >>,
      << <<"20x">>, <<"xxx">> >>,
      << <<"200">> >>,
      << <<"200">>, <<"2xx">> >>,
      << <<"404">> >>,
      << <<"404", "|", "200">>, <<"norel">> >> }

OnGlobalKeys ==
    { <<>>,
      << <<"200">> >>,
      << <<"20x">>, <<"2xx">> >>,
      << <<"200">>, <<"xxx">> >> }

OnStatuses == {200, 404}

InitOn ==
    \E ks \in OnGlobalKeys :
        InitialClient(ClientOptions(FALSE, <<>>, Handlers("global", ks)))

NextOn ==
    \/ Len(calls) < MaxOnGets /\ Get(JString("/a"), <<>>)
    \/ \E p \in 1..Len(promises), ks \in OnLocalKeys : On(p, Handlers("local", ks))
    \/ \E o \in Dispatchable(Cur) : CallStatusHandler(o)
    \/ \E f \in InFlight, status \in OnStatuses :
          FetchFulfils(f, JNumber(status), JsonText(JObject(NoProps)))
    \/ \E f \in InFlight : FetchRejects(f)

SpecOn == InitOn /\ [][NextOn]_vars

\* the keys a handlers object answers to, and the handlers it holds for a key
KeysOf(handlers) ==
    UNION {Range(Split(handlers[i][1], "|")) : i \in 1..Len(handlers)}

HandlersFor(handlers, key) ==
    {handlers[i][2] : i \in {j \in 1..Len(handlers) :
                                key \in Range(Split(handlers[j][1], "|"))}}

\* the keys of a three-digit status, most specific first
Candidates(status) ==
    <<ToString(status), ToString(status \div 10) \o "x",
      ToString(status \div 100) \o "xx", "xxx">>

\* the first of the candidates that handlers answers to, 0 if there is none
FirstMatch(status, handlers) ==
    IF \E i \in 1..4 : Candidates(status)[i] \in KeysOf(handlers)
    THEN CHOOSE i \in 1..4 :
            /\ Candidates(status)[i] \in KeysOf(handlers)
            /\ \A j \in 1..(i - 1) : Candidates(status)[j] \notin KeysOf(handlers)
    ELSE 0

\* the on promises that have settled for a single response of numeric status
SettledOnResponse ==
    {o \in 1..Len(promises) :
        /\ promises[o].kind = "on" /\ promises[o].state # "pending"
        /\ promises[promises[o].src].state = "fulfilled"
        /\ objects[promises[promises[o].src].value.id].class = "response"
        /\ objects[promises[promises[o].src].value.id].status.type = "number"}

InvokedBy(o) == {n \in 1..Len(invoked) : invoked[n].on = o}

StatusOf(o) == objects[promises[promises[o].src].value.id].status.value

\* the handler is the one of the first candidate key in the local map, and of the
\* first candidate key in the global map only when the local map has none
SelectedInOrder(o) ==
    LET local == FirstMatch(StatusOf(o), promises[o].handlers)
        global == FirstMatch(StatusOf(o), globalOptions.on)
    IN  \A n \in InvokedBy(o) :
           IF local # 0
           THEN invoked[n].handler \in
                   HandlersFor(promises[o].handlers, Candidates(StatusOf(o))[local])
           ELSE /\ global # 0
                /\ invoked[n].handler \in
                      HandlersFor(globalOptions.on, Candidates(StatusOf(o))[global])

SomeMatch(o) ==
    \/ FirstMatch(StatusOf(o), promises[o].handlers) # 0
    \/ FirstMatch(StatusOf(o), globalOptions.on) # 0

\* C4: for a response with numeric status S, on selects the handler by the keys
\* S, first two digits + 'x', first digit + 'xx', 'xxx', all of them in the local
\* map before any of them in the global map, and when a key matches exactly one
\* handler is invoked.
C4_HandlerSelection ==
    \A o \in SettledOnResponse :
        /\ SelectedInOrder(o)
        /\ SomeMatch(o) => Cardinality(InvokedBy(o)) = 1

\* the order of the keys and of the maps alone: what is invoked is the handler
\* selected, and no on invokes two handlers
SelectionOrder ==
    \A o \in SettledOnResponse :
        /\ SelectedInOrder(o)
        /\ Cardinality(InvokedBy(o)) <= 1

\* the handler names that the on of promise o has invoked
NamesInvokedBy(o) == {invoked[n].handler : n \in InvokedBy(o)}

\* C33: what an on invokes depends on its handlers, the global handlers and the
\* status of the response alone: an on with a handler for the status has invoked
\* a handler, whatever another on of the same promise found, and two ons with
\* the same handlers for responses of the same status have invoked the same.
C33_OnsAreIndependent ==
    /\ \A o \in SettledOnResponse : SomeMatch(o) => InvokedBy(o) # {}
    /\ \A o1, o2 \in SettledOnResponse :
          (promises[o1].handlers = promises[o2].handlers /\ StatusOf(o1) = StatusOf(o2))
              => NamesInvokedBy(o1) = NamesInvokedBy(o2)

-----------------------------------------------------------------------------
(* SpecFollow: follow and followAll over one representation, and on for    *)
(* what they resolve with.                                                 *)

Named(name) == JObject("name" :> JString(name))

\* the representation followed: relations that are linked, embedded, both kinds
\* as lists, and relation names that hold a dot
Person ==
    JObject(
        "_links" :> JObject(
            "self" :> Link("/me")
            @@ "car" :> Link("/car")
            @@ "cars" :> JArray(<<Link("/c1"), Link("/c2")>>)
            @@ "l.m" :> Link("/lm"))
        @@ "_embedded" :> JObject(
            "address" :> Named("home")
            @@ "pets" :> JArray(<<Named("cat"), Named("dog")>>)
            @@ "empty" :> JArray(<<>>)
            @@ "x.y" :> Named("dotted")
            @@ "e.f" :> JArray(<<>>)))

Relations ==
    { <<"address">>, <<"pets">>, <<"empty">>, <<"x", ".", "y">>, <<"e", ".", "f">>,
      <<"car">>, <<"cars">>, <<"l", ".", "m">>, <<"missing">>,
      <<"self", ".", "href">> }

FollowLocalKeys ==
    { << <<"200">>, <<"norel">> >>,
      << <<"2xx">>, <<"xxx">> >> }

FollowMethods == {"GET", "POST"}

InitFollow == InitialClient(ClientOptions(FALSE, <<>>, <<>>))

NextFollow ==
    \/ \E relation \in Relations, method \in FollowMethods :
          Follow(Person, relation, FollowOptions(FALSE, method, <<>>))
    \/ \E relation \in Relations, method \in FollowMethods :
          FollowAll(Person, relation, FollowOptions(FALSE, method, <<>>))
    \/ \E p \in 1..Len(promises), ks \in FollowLocalKeys : On(p, Handlers("local", ks))
    \/ \E o \in Dispatchable(Cur) : CallStatusHandler(o)
    \/ \E f \in InFlight, status \in OnStatuses :
          FetchFulfils(f, JNumber(status), JsonText(JString(fetches[f].url)))
    \/ \E f \in InFlight : FetchRejects(f)

SpecFollow == InitFollow /\ [][NextFollow]_vars

FollowCalls == {i \in 1..Len(calls) : calls[i].op = "follow"}

Embedded(i) == Member(calls[i].halRepresentation, "_embedded")

Links(i) == Member(calls[i].halRepresentation, "_links")

RelationOf(i) == Text(calls[i].relation)

\* the object the promise of call i was fulfilled with
Resolved(i) == objects[promises[calls[i].promise].value.id]

Fulfilled(i) == promises[calls[i].promise].state = "fulfilled"

\* the on promises attached to the promise of call i that have settled
SettledOn(i) ==
    {o \in 1..Len(promises) :
        /\ promises[o].kind = "on" /\ promises[o].src = calls[i].promise
        /\ promises[o].state # "pending"}

\* on promise o has invoked, once, a handler it holds for the key, with the body
\* and the value of the source promise
InvokedFor(o, key, body) ==
    /\ Cardinality(InvokedBy(o)) = 1
    /\ \A n \in InvokedBy(o) :
          /\ invoked[n].handler \in HandlersFor(promises[o].handlers, key)
          /\ invoked[n].body = body
          /\ invoked[n].response = promises[promises[o].src].value

\* C5: follow on a representation that has the relation neither in _embedded nor
\* in _links resolves with a response of status 'norel' whose info carries the
\* relation and the representation, makes no transport call, and an on with a
\* 'norel' handler invokes that handler with (null, the response) and no other.
C5_MissingRelationIsNorel ==
    \A i \in FollowCalls :
        ~canFollow(calls[i].halRepresentation, calls[i].relation) =>
            /\ Fulfilled(i)
            /\ Resolved(i).status = STATUS_NOREL
            /\ Resolved(i).info = [halRepresentation |-> calls[i].halRepresentation,
                                   relation |-> calls[i].relation]
            /\ calls[i].fetched = {}
            /\ \A o \in SettledOn(i) :
                  "norel" \in KeysOf(promises[o].handlers)
                      => InvokedFor(o, "norel", JNull)

\* call i was resolved with the response of status 'norel'
ResolvedNorel(i) == Fulfilled(i) /\ Resolved(i).status = STATUS_NOREL

\* C37: canFollow and follow agree on whether a relation exists: a follow with
\* method GET of a relation that canFollow finds does not resolve with status
\* 'norel', and a follow of a relation that canFollow does not find does.
C37_CanFollowAgrees ==
    \A i \in FollowCalls :
        (calls[i].options.method = "GET" /\ ~calls[i].options.followAll) =>
            IF canFollow(calls[i].halRepresentation, calls[i].relation)
            THEN ~ResolvedNorel(i)
            ELSE ResolvedNorel(i)

\* the elements of an embedded value that followAll resolves with
AllOf(embedded) == IF Array_isArray(embedded) THEN embedded.items ELSE <<embedded>>

\* call i was resolved with a list of responses of status 200 for the elements
ResolvedWithAll(i, elements) ==
    /\ Resolved(i).class = "array"
    /\ Len(Resolved(i).items) = Len(elements)
    /\ \A k \in 1..Len(elements) :
          /\ objects[Resolved(i).items[k].id].status = JNumber(200)
          /\ parseBody(objects[Resolved(i).items[k].id].body) = elements[k]

\* C6: follow with method GET on a relation present in _embedded makes no
\* transport call and resolves with status 200 and the embedded object as body:
\* the first element of a list, or with followAll all elements in order, a single
\* object as a list of one.
C6_EmbeddedIsFollowedLocally ==
    \A i \in FollowCalls :
        (/\ calls[i].options.method = "GET"
         /\ In(RelationOf(i), Embedded(i))
         /\ AllOf(Prop(Embedded(i), RelationOf(i))) # <<>> \/ calls[i].options.followAll)
            => /\ calls[i].fetched = {}
               /\ Fulfilled(i)
               /\ IF calls[i].options.followAll
                  THEN ResolvedWithAll(i, AllOf(Prop(Embedded(i), RelationOf(i))))
                  ELSE /\ Resolved(i).class = "response"
                       /\ Resolved(i).status = JNumber(200)
                       /\ parseBody(Resolved(i).body)
                             = AllOf(Prop(Embedded(i), RelationOf(i)))[1]

\* the first link of the relation of call i
FirstLink(i) == AllOf(Prop(Links(i), RelationOf(i)))[1]

\* a get for the url with the headers of call i was pending when call i was made
IdenticalGetPending(i, url) ==
    \E p \in calls[i].pending :
        /\ promises[p].kind = "get"
        /\ fetches[promises[p].fetch].url = url
        /\ Mapping(fetches[promises[p].fetch].headers)
              = Mapping(createHeaders("GET", calls[i].options.headers))

\* C7: follow without followAll on a relation that is in _links and not embedded,
\* with no identical GET pending, makes exactly one transport call, a GET to the
\* href of the (first) link, and settles with the outcome of that call.
C7_LinkedIsFetchedOnce ==
    \A i \in FollowCalls :
        (/\ ~calls[i].options.followAll
         /\ calls[i].options.method = "GET"
         /\ In(RelationOf(i), Links(i))
         /\ ~In(RelationOf(i), Embedded(i))
         /\ AllOf(Prop(Links(i), RelationOf(i))) # <<>>
         /\ ~IdenticalGetPending(i, FirstLink(i).props["href"].value))
            => /\ Cardinality(calls[i].fetched) = 1
               /\ \A f \in calls[i].fetched :
                     /\ fetches[f].method = "GET"
                     /\ fetches[f].url = FirstLink(i).props["href"].value
                     /\ fetches[f].state = "inflight"
                           <=> promises[calls[i].promise].state = "pending"
                     /\ fetches[f].state = "fulfilled"
                           => Fulfilled(i) /\ Resolved(i).fetch = f
                     /\ fetches[f].state = "rejected"
                           => promises[calls[i].promise].value = NetworkError(f)

\* C8: followAll over a relation whose embedded value is an empty list makes no
\* transport call and resolves with an empty list, which on dispatches as status
\* 200: a '200' handler is invoked with an empty array of bodies, and no other
\* handler.
C8_EmptyEmbeddedListIs200 ==
    \A i \in FollowCalls :
        (/\ calls[i].options.followAll
         /\ calls[i].options.method = "GET"
         /\ In(RelationOf(i), Embedded(i))
         /\ Prop(Embedded(i), RelationOf(i)) = JArray(<<>>))
            => /\ calls[i].fetched = {}
               /\ Fulfilled(i)
               /\ ResolvedWithAll(i, <<>>)
               /\ \A o \in SettledOn(i) :
                     "200" \in KeysOf(promises[o].handlers)
                         => InvokedFor(o, "200", JArray(<<>>))

-----------------------------------------------------------------------------
(* SpecFollowAll: followAll over links and over embedded lists, and on for *)
(* the lists of responses.                                                 *)

ListRelations == { <<"cars">>, <<"car">>, <<"pets">> }

ListLocalKeys ==
    { << <<"200">>, <<"404">>, <<"xxx">> >>,
      << <<"2xx">> >> }

ListGlobalKeys == << <<"xxx">> >>

InitFollowAll ==
    InitialClient(ClientOptions(FALSE, <<>>, Handlers("global", ListGlobalKeys)))

NextFollowAll ==
    \/ \E relation \in ListRelations :
          FollowAll(Person, relation, FollowOptions(FALSE, "GET", <<>>))
    \/ \E i \in FollowCalls, ks \in ListLocalKeys :
          /\ Cardinality({o \in 1..Len(promises) : promises[o].kind = "on"}) < MaxListOn
          /\ On(calls[i].promise, Handlers("local", ks))
    \/ \E o \in Dispatchable(Cur) : CallStatusHandler(o)
    \/ \E f \in InFlight, status \in OnStatuses :
          FetchFulfils(f, JNumber(status), JsonText(JString(fetches[f].url)))
    \/ \E f \in InFlight : FetchRejects(f)

SpecFollowAll == InitFollowAll /\ [][NextFollowAll]_vars

\* the entries of invoked for a non-empty list of responses
InvokedForList ==
    {n \in 1..Len(invoked) :
        /\ objects[invoked[n].response.id].class = "array"
        /\ objects[invoked[n].response.id].items # <<>>}

ItemsOf(n) == objects[invoked[n].response.id].items

StatusesOf(n) == [k \in 1..Len(ItemsOf(n)) |-> objects[ItemsOf(n)[k].id].status]

SameStatus(n) == \A k \in 1..Len(ItemsOf(n)) : StatusesOf(n)[k] = StatusesOf(n)[1]

\* the handler a map pair holds for the first candidate key, local map first
Selected(status, handlers, globalHandlers) ==
    IF FirstMatch(status, handlers) # 0
    THEN HandlersFor(handlers, Candidates(status)[FirstMatch(status, handlers)])
    ELSE IF FirstMatch(status, globalHandlers) # 0
    THEN HandlersFor(globalHandlers,
                     Candidates(status)[FirstMatch(status, globalHandlers)])
    ELSE {}

\* the handlers registered under 'xxx', local map first
SelectedXXX(handlers, globalHandlers) ==
    IF "xxx" \in KeysOf(handlers) THEN HandlersFor(handlers, "xxx")
    ELSE HandlersFor(globalHandlers, "xxx")

\* the follow calls whose promise resolved with the list of entry n
CallsOf(n) ==
    {i \in FollowCalls :
        /\ promises[calls[i].promise].state = "fulfilled"
        /\ promises[calls[i].promise].value = invoked[n].response}

\* the list of call i holds, in order, the responses of its links, or the
\* responses made for its embedded elements
InLinkOrder(i) ==
    IF In(RelationOf(i), Embedded(i))
    THEN ResolvedWithAll(i, AllOf(Prop(Embedded(i), RelationOf(i))))
    ELSE LET links == AllOf(Prop(Links(i), RelationOf(i)))
         IN  /\ Len(Resolved(i).items) = Len(links)
             /\ \A k \in 1..Len(links) :
                   fetches[objects[Resolved(i).items[k].id].fetch].url
                       = links[k].props["href"].value

\* C9: for a non-empty list of responses, on dispatches on the common status when
\* all elements have the same status and on 'xxx' otherwise, so that a list of
\* mixed status reaches only a handler registered under 'xxx'; the handler is
\* given the parsed bodies and the responses as lists in the order of the links.
C9_ListStatus ==
    \A n \in InvokedForList :
        /\ IF SameStatus(n)
           THEN /\ invoked[n].status = StatusesOf(n)[1]
                /\ invoked[n].handler \in
                      Selected(StatusesOf(n)[1].value,
                               promises[invoked[n].on].handlers, globalOptions.on)
           ELSE /\ invoked[n].status = XXX
                /\ invoked[n].handler \in
                      SelectedXXX(promises[invoked[n].on].handlers, globalOptions.on)
        /\ invoked[n].body =
              JArray([k \in 1..Len(ItemsOf(n)) |->
                         parseBody(objects[ItemsOf(n)[k].id].body)])
        /\ invoked[n].response = promises[promises[invoked[n].on].src].value
        /\ \A i \in CallsOf(n) : InLinkOrder(i)

\* a list with the statuses 200 and 404 went to the local 'xxx' handler of a map
\* that also holds '200' and '404'
C9_Witness ==
    \E n \in InvokedForList :
        /\ ~SameStatus(n)
        /\ {"200", "404"} \subseteq KeysOf(promises[invoked[n].on].handlers)
        /\ invoked[n].handler = "local:xxx"
        /\ invoked[n].body = JArray(<<JString("/c1"), JString("/c2")>>)

\* the followAll calls that went to allSettled
SettleAllCalls ==
    {i \in FollowCalls : /\ promises[calls[i].promise].src # 0
                         /\ promises[promises[calls[i].promise].src].kind = "allSettled"}

SubsOf(i) == promises[promises[calls[i].promise].src].subs

\* C10: followAll over links settles only after every sub-request has settled; it
\* is fulfilled with the list of the responses in the order of the links when no
\* sub-request was rejected, and rejected with the list of all outcomes, each at
\* the position of its link, when one was rejected.
C10_SettleAll ==
    \A i \in SettleAllCalls :
        LET p == promises[calls[i].promise]
            links == AllOf(Prop(Links(i), RelationOf(i)))
        IN  /\ Len(SubsOf(i)) = Len(links)
            /\ \A k \in 1..Len(links) :
                  fetches[promises[SubsOf(i)[k]].fetch].url = links[k].props["href"].value
            /\ p.state # "pending" =>
                  /\ \A k \in 1..Len(links) : promises[SubsOf(i)[k]].state # "pending"
                  /\ p.state = "fulfilled"
                        <=> \A k \in 1..Len(links) :
                               promises[SubsOf(i)[k]].state = "fulfilled"
                  /\ objects[p.value.id].items
                        = [k \in 1..Len(links) |-> promises[SubsOf(i)[k]].value]

\* a followAll over two links was rejected with the response of the first link
\* and the error of the second
C10_Witness ==
    \E i \in SettleAllCalls :
        /\ promises[calls[i].promise].state = "rejected"
        /\ Len(SubsOf(i)) = 2
        /\ objects[promises[calls[i].promise].value.id].items[1].t = "object"
        /\ objects[promises[calls[i].promise].value.id].items[2].t = "error"

-----------------------------------------------------------------------------
(* SpecChain: chains of on, p.on( a ).on( b ).on( c ), after a get or a     *)
(* post whose transport call fulfils or fails, with handlers that return    *)
(* the body, null or nothing.                                               *)

OnPromises == {o \in 1..Len(promises) : promises[o].kind = "on"}

ChainMaps ==
    { Handlers("local", << <<"xxx">> >>),
      Handlers("null", << <<"200">> >>),
      Handlers("void", << <<"2xx">> >>) }

ChainGlobalKeys == { <<>>, << <<"xxx">> >> }

InitChain ==
    \E ks \in ChainGlobalKeys :
        InitialClient(ClientOptions(FALSE, <<>>, Handlers("global", ks)))

\* on is called on the promise that the call before it returned
NextChain ==
    \/ Len(calls) < MaxChainVerbs /\ Get(JString("/a"), <<>>)
    \/ Len(calls) < MaxChainVerbs /\ Post(JString("/a"), JObject(NoProps), <<>>)
    \/ \E h \in ChainMaps :
          /\ Cardinality(OnPromises) < MaxChainOn
          /\ On(Len(promises), h)
    \/ \E h \in ChainMaps :
          /\ Cardinality(OnPromises) < MaxChainOn
          /\ ThenOn(Len(promises), h)
    \/ \E o \in Dispatchable(Cur) : CallStatusHandler(o)
    \/ \E f \in InFlight :
          FetchFulfils(f, JNumber(200), JsonText(JObject(NoProps)))
    \/ \E f \in InFlight : FetchRejects(f)

SpecChain == InitChain /\ [][NextChain]_vars

RECURSIVE RootOf(_)
\* the promise a chain of on starts from
RootOf(o) == IF promises[o].kind = "on" THEN RootOf(promises[o].src) ELSE o

\* the messages that the dispatch of on promise o logged
LoggedBy(o) ==
    {i \in 1..Len(logged) : logged[i].what # "no-url" /\ logged[i].about.by = o}

\* the transport calls of get, head, put, post, patch and del that failed
FailedCalls ==
    {f \in 1..Len(fetches) :
        /\ fetches[f].state = "rejected"
        /\ promises[fetches[f].promise].kind \in {"get", "head", "unsafe"}}

\* C11: when the transport call of a verb fails, the promise of the verb rejects
\* with the transport error, no handler is invoked by any on of the chain attached
\* to it, whatever the local and the global map hold, nothing is logged for it,
\* and every promise of on in the chain rejects with the same error.
C11_NetworkErrorSkipsHandlers ==
    \A f \in FailedCalls :
        /\ promises[fetches[f].promise].state = "rejected"
        /\ promises[fetches[f].promise].value = NetworkError(f)
        /\ \A o \in OnPromises :
              RootOf(o) = fetches[f].promise
                  => /\ InvokedBy(o) = {}
                     /\ LoggedBy(o) = {}
                     /\ promises[o].state # "fulfilled"
                     /\ promises[o].state = "rejected"
                           => promises[o].value = NetworkError(f)

\* a get failed, and the two on promises of the chain attached to it, whose local
\* map and global map hold 'xxx', have rejected with its error
C11_Witness ==
    \E f \in FailedCalls, o1, o2 \in OnPromises :
        /\ promises[o1].src = fetches[f].promise
        /\ promises[o2].src = o1
        /\ "xxx" \in KeysOf(promises[o1].handlers)
        /\ "xxx" \in KeysOf(globalOptions.on)
        /\ promises[o1].state = "rejected"
        /\ promises[o2].state = "rejected"
        /\ promises[o2].value = NetworkError(f)

\* the on promises given null or undefined: their source is a promise of on that
\* was fulfilled with a falsy value
AfterNull ==
    {o \in OnPromises :
        /\ promises[promises[o].src].kind = "on"
        /\ promises[promises[o].src].state = "fulfilled"
        /\ promises[promises[o].src].value.t = "returned"
        /\ promises[promises[o].src].value.result \in {JNull, JUndefined}}

\* C15: after a handler returned nothing or null, an on of the chain invokes no
\* handler, logs nothing, does not reject and resolves to null, and so does every
\* on after it.
C15_NullEndsChain ==
    \A o \in AfterNull :
        /\ InvokedBy(o) = {}
        /\ LoggedBy(o) = {}
        /\ promises[o].state # "rejected"
        /\ promises[o].state = "fulfilled"
              => promises[o].value = Returned(NoHandler, JNull)

\* a handler returned nothing, and the two on promises after it, the first with
\* a local 'xxx' handler and a global one at hand, resolved to null
C15_Witness ==
    \E o1, o2, o3 \in OnPromises :
        /\ promises[o2].src = o1 /\ promises[o3].src = o2
        /\ \E n \in InvokedBy(o1) : invoked[n].handler = "void:2xx"
        /\ promises[o1].value = Returned("void:2xx", JUndefined)
        /\ "xxx" \in KeysOf(promises[o2].handlers)
        /\ "xxx" \in KeysOf(globalOptions.on)
        /\ promises[o2].state = "fulfilled"
        /\ promises[o3].state = "fulfilled"
        /\ promises[o3].value = Returned(NoHandler, JNull)

-----------------------------------------------------------------------------
(* SpecDispatch: on for the response of a get and for the 'norel' response  *)
(* of a follow, with local and global maps that hold exact keys, wildcards, *)
(* 'norel' and pipe-joined keys.                                            *)

DispatchLocalKeys ==
    { << <<"xxx">> >>,
      << <<"norel">> >>,
      << <<"200", "|", "404">> >> }

DispatchGlobalKeys ==
    { << <<"xxx">> >>,
      << <<"norel", "|", "404">> >> }

InitDispatch ==
    \E ks \in DispatchGlobalKeys :
        InitialClient(ClientOptions(FALSE, <<>>, Handlers("global", ks)))

NextDispatch ==
    \/ Len(calls) < MaxDispatchCalls /\ Get(JString("/a"), <<>>)
    \/ /\ Len(calls) < MaxDispatchCalls
       /\ Follow(Person, <<"missing">>, FollowOptions(FALSE, "GET", <<>>))
    \/ \E p \in 1..Len(promises), ks \in DispatchLocalKeys :
          On(p, Handlers("local", ks))
    \/ \E o \in Dispatchable(Cur) : CallStatusHandler(o)
    \/ \E f \in InFlight, status \in OnStatuses :
          FetchFulfils(f, JNumber(status), JsonText(JObject(NoProps)))
    \/ \E f \in InFlight : FetchRejects(f)

SpecDispatch == InitDispatch /\ [][NextDispatch]_vars

\* the on promises attached to a promise that was fulfilled with a response
OnResponse ==
    {o \in OnPromises :
        /\ promises[promises[o].src].state = "fulfilled"
        /\ promises[promises[o].src].value.t = "object"
        /\ objects[promises[promises[o].src].value.id].class = "response"}

\* the response on promise o was attached to
ResponseOf(o) == objects[promises[promises[o].src].value.id]

\* a handlers object holds a handler for the status: under 'norel' for the status
\* 'norel', under one of the four keys of a numeric status
Answers(handlers, status) ==
    IF status = STATUS_NOREL THEN "norel" \in KeysOf(handlers)
    ELSE FirstMatch(status.value, handlers) # 0

\* neither the local map of o nor the global map holds a handler for the status
NoHandlerFor(o) ==
    /\ ~Answers(promises[o].handlers, ResponseOf(o).status)
    /\ ~Answers(globalOptions.on, ResponseOf(o).status)

\* a message about the response of o is in the log: for 'norel' one that names the
\* relation and one that names the representation
UnhandledLogged(o) ==
    IF ResponseOf(o).status = STATUS_NOREL
    THEN /\ \E i \in 1..Len(logged) :
               /\ logged[i].what = "missing-relation"
               /\ logged[i].about.relation = ResponseOf(o).info.relation
         /\ \E i \in 1..Len(logged) :
               /\ logged[i].what = "offending-representation"
               /\ logged[i].about.halRepresentation
                     = ResponseOf(o).info.halRepresentation
    ELSE \E i \in 1..Len(logged) :
            /\ logged[i].what = "unhandled-status"
            /\ logged[i].about.response = promises[promises[o].src].value

\* an on without handler for the status has rejected with the response, which is
\* marked, and the log holds the message
RejectedUnhandled ==
    \A o \in OnResponse :
        (promises[o].state # "pending" /\ NoHandlerFor(o))
            => /\ promises[o].state = "rejected"
               /\ promises[o].value = promises[promises[o].src].value
               /\ ResponseOf(o).unhandledOn
               /\ UnhandledLogged(o)

\* a step in which an on settles for a response that is marked: it rejects with
\* the response, and no handler is invoked and nothing is logged
MarkedRejects ==
    \A o \in OnResponse :
        (/\ promises[o].state = "pending"
         /\ promises'[o].state # "pending"
         /\ ResponseOf(o).unhandledOn)
            => /\ promises'[o].state = "rejected"
               /\ promises'[o].value = promises[promises[o].src].value
               /\ invoked' = invoked
               /\ logged' = logged

\* C12: when neither the local nor the global map has a handler for the status
\* of the response, the promise of on rejects with the response, a message is
\* logged (for 'norel' it names the relation and the representation) and the
\* response is marked; an on that is dispatched for a marked response rejects
\* with it at once, without a handler call and without a message.
C12_UnhandledRejects == []RejectedUnhandled /\ [][MarkedRejects]_vars

\* an on without 'norel' handler rejected for a 'norel' response and logged, and a
\* second on of the same promise, which holds a 'norel' handler, rejected without
\* calling it
C12_Witness ==
    \E o1, o2 \in OnResponse :
        /\ promises[o1].src = promises[o2].src
        /\ ResponseOf(o1).status = STATUS_NOREL
        /\ NoHandlerFor(o1)
        /\ promises[o1].state = "rejected"
        /\ LoggedBy(o1) # {}
        /\ "norel" \in KeysOf(promises[o2].handlers)
        /\ promises[o2].state = "rejected"
        /\ promises[o2].value = promises[promises[o2].src].value
        /\ InvokedBy(o2) = {}
        /\ LoggedBy(o2) = {}

\* the messages logged by the on promises attached to response r
LoggedAbout(r) ==
    {i \in 1..Len(logged) :
        /\ logged[i].what \in {"missing-relation", "unhandled-status"}
        /\ promises[promises[logged[i].about.by].src].value = ObjectRef(r)}

\* the on promises attached to a promise that was fulfilled with response r
OnOf(r) == {o \in OnResponse : promises[promises[o].src].value = ObjectRef(r)}

\* C13: however many on are attached to the promise of a response, text() is
\* called at most once on the response, and at most one message says that the
\* response was not handled.
C13_ReadAndLoggedOnce ==
    \A r \in 1..Len(objects) :
        objects[r].class = "response"
            => /\ objects[r].textCalls <= 1
               /\ Cardinality(LoggedAbout(r)) <= 1

\* two on of one promise have each called a handler for the response, whose
\* text() was called once
C13_Witness ==
    \E r \in 1..Len(objects) :
        /\ objects[r].class = "response"
        /\ objects[r].textCalls = 1
        /\ \E o1, o2 \in OnOf(r) :
              /\ o1 # o2
              /\ InvokedBy(o1) # {}
              /\ InvokedBy(o2) # {}

\* the handler a map holds for a key when it is read as the map with one entry
\* for each alternative of a pipe-joined key: the one of the last entry that
\* names the key
PlainHandler(handlers, key) ==
    LET named == {i \in 1..Len(handlers) : key \in Range(Split(handlers[i][1], "|"))}
    IN  IF named = {} THEN NoHandler
        ELSE handlers[CHOOSE i \in named : \A j \in named : j <= i][2]

\* the keys a status is looked up under
LookupKeys(status) ==
    IF status = STATUS_NOREL THEN <<"norel">> ELSE Candidates(status.value)

\* the handler of the first key that the map, read by alternatives, answers to
PlainLookup(handlers, status) ==
    LET found == {k \in 1..Len(LookupKeys(status)) :
                     PlainHandler(handlers, LookupKeys(status)[k]) # NoHandler}
    IN  IF found = {} THEN NoHandler
        ELSE PlainHandler(handlers,
                          LookupKeys(status)[CHOOSE k \in found : \A j \in found : k <= j])

\* the handler on promise o is to call when every pipe-joined key of the local
\* and of the global map is read as one entry for each alternative
ByAlternative(o) ==
    IF PlainLookup(promises[o].handlers, ResponseOf(o).status) # NoHandler
    THEN PlainLookup(promises[o].handlers, ResponseOf(o).status)
    ELSE PlainLookup(globalOptions.on, ResponseOf(o).status)

\* C17: a map with a pipe-joined key 'A|B' behaves as the map with one entry for
\* each alternative: for a response of status A and for one of status B the
\* handler called is the one of that key, in the local map and in the global map,
\* and an on reports a status as unhandled only if no alternative names it.
C17_PipeJoinedKeys ==
    /\ \A n \in 1..Len(invoked) :
          invoked[n].on \in OnResponse
              => invoked[n].handler = ByAlternative(invoked[n].on)
    /\ \A o \in OnResponse :
          LoggedBy(o) # {} => ByAlternative(o) = NoHandler

\* for a response of status 404 one on called the handler of its local key
\* '200|404', and another on, whose local map has no key for it, the handler of
\* the global key 'norel|404'
C17_Witness ==
    \E n1, n2 \in 1..Len(invoked) :
        /\ invoked[n1].status = JNumber(404)
        /\ invoked[n1].handler = "local:200|404"
        /\ invoked[n2].status = JNumber(404)
        /\ invoked[n2].handler = "global:norel|404"

\* the on promises attached to a promise that was fulfilled with a 'norel'
\* response
OnNorel == {o \in OnResponse : ResponseOf(o).status = STATUS_NOREL}

\* C18: a 'norel' response goes only to a handler registered under 'norel', the
\* one of the local map before the one of the global map, and never to a
\* wildcard: with no 'norel' key in either map no handler is called and the
\* promise of on rejects with the response.
C18_NorelHasNoWildcard ==
    \A o \in OnNorel :
        /\ \A n \in InvokedBy(o) :
              IF "norel" \in KeysOf(promises[o].handlers)
              THEN invoked[n].handler \in HandlersFor(promises[o].handlers, "norel")
              ELSE invoked[n].handler \in HandlersFor(globalOptions.on, "norel")
        /\ ("norel" \notin KeysOf(promises[o].handlers) \cup KeysOf(globalOptions.on)
            /\ promises[o].state # "pending")
              => /\ InvokedBy(o) = {}
                 /\ promises[o].state = "rejected"
                 /\ promises[o].value = promises[promises[o].src].value

\* an on whose local map and whose global map hold 'xxx' and no 'norel' has
\* rejected for a 'norel' response without a handler call
C18_Witness ==
    \E o \in OnNorel :
        /\ "xxx" \in KeysOf(promises[o].handlers)
        /\ "xxx" \in KeysOf(globalOptions.on)
        /\ promises[o].state = "rejected"
        /\ InvokedBy(o) = {}

-----------------------------------------------------------------------------
(* SpecBodies: on for responses and lists of responses whose bodies are    *)
(* JSON, an HTML page, or empty.                                           *)

BodyMaps == { Handlers("local", << <<"xxx">> >>), Handlers("local", << <<"200">> >>) }

\* the bodies the transport answers with to a request for the url
Bodies(url) == { JsonText(JString(url)), HtmlText, EmptyText }

InitBodies == InitialClient(ClientOptions(FALSE, <<>>, <<>>))

NextBodies ==
    \/ Len(calls) < MaxBodyCalls /\ Get(JString("/a"), <<>>)
    \/ /\ Len(calls) < MaxBodyCalls
       /\ FollowAll(Person, <<"cars">>, FollowOptions(FALSE, "GET", <<>>))
    \/ \E i \in 1..Len(calls), h \in BodyMaps :
          /\ Cardinality(OnPromises) < MaxBodyOn
          /\ On(calls[i].promise, h)
    \/ \E o \in Dispatchable(Cur) : CallStatusHandler(o)
    \/ \E f \in InFlight : \E body \in Bodies(fetches[f].url) :
          FetchFulfils(f, JNumber(200), body)
    \/ \E f \in InFlight : FetchRejects(f)

SpecBodies == InitBodies /\ [][NextBodies]_vars

\* what a handler is to be given for a body text: the value of a JSON text, null
\* for any other text
ValueOrNull(text) == IF text.type = "json" THEN text.of ELSE JNull

\* what a handler is to be given for the object r: for a response the value of
\* its body, for a list of responses the values of the bodies in their order
Parsed(r) ==
    IF objects[r].class = "array"
    THEN JArray([k \in 1..Len(objects[r].items) |->
                    ValueOrNull(objects[objects[r].items[k].id].body)])
    ELSE ValueOrNull(objects[r].body)

\* the bodies of the object r: its own, or those of its elements
BodiesOf(r) ==
    IF objects[r].class = "array"
    THEN {objects[objects[r].items[k].id].body : k \in 1..Len(objects[r].items)}
    ELSE {objects[r].body}

\* C14: a body that is no JSON or is empty does not keep the matched handler from
\* being called: it is called with null for that body and with the response, a
\* list of responses gives null for each such element and the value for every
\* other, in the order of the responses, and the promise of on does not reject.
\* Every response of SpecBodies has status 200 and every map a handler for it.
C14_ParseFailureIsNull ==
    /\ \A n \in 1..Len(invoked) :
          /\ invoked[n].response = promises[promises[invoked[n].on].src].value
          /\ invoked[n].body = Parsed(invoked[n].response.id)
          /\ promises[invoked[n].on].state = "fulfilled"
    /\ \A o \in OnPromises :
          (/\ promises[o].state # "pending"
           /\ promises[promises[o].src].state = "fulfilled")
              => Cardinality(InvokedBy(o)) = 1

\* a handler was called for a list of two responses, the first with an HTML
\* page and the second with a JSON body, and the promise of on is fulfilled
C14_Witness ==
    \E n \in 1..Len(invoked) :
        /\ objects[invoked[n].response.id].class = "array"
        /\ objects[objects[invoked[n].response.id].items[1].id].body = HtmlText
        /\ invoked[n].body = JArray(<<JNull, JString("/c2")>>)
        /\ promises[invoked[n].on].state = "fulfilled"

-----------------------------------------------------------------------------
(* SpecThen: chains of on whose handlers return the body, or the promise   *)
(* of thenFollow for a relation of the body.                               *)

ThenMaps ==
    { Handlers("local", << <<"200">> >>),
      Handlers("car", << <<"200">> >>),
      Handlers("address", << <<"2xx">> >>) }

ThenNextMaps == { Handlers("local", << <<"200">>, <<"404">> >>) }

\* the body the transport answers with to a request for the url
BodyAt(url) == IF url = "/a" THEN JsonText(Person) ELSE JsonText(Named(url))

\* the statuses the transport answers with to a request for the url
StatusesAt(url) == IF url = "/a" THEN {200} ELSE OnStatuses

InitThen == InitialClient(ClientOptions(FALSE, <<>>, <<>>))

\* on is called on the promise of the latest get, or on a promise of on
NextThen ==
    \/ Cardinality(GetCalls) < MaxThenGets /\ Get(JString("/a"), <<>>)
    \/ \E i \in GetCalls, h \in ThenMaps :
          /\ Cardinality(OnPromises) < MaxThenOn
          /\ \A j \in GetCalls : j <= i
          /\ On(calls[i].promise, h)
    \/ \E o \in OnPromises, h \in ThenNextMaps :
          /\ Cardinality(OnPromises) < MaxThenOn
          /\ ThenOn(o, h)
    \/ \E o \in Dispatchable(Cur) : CallStatusHandler(o)
    \/ \E f \in InFlight : \E status \in StatusesAt(fetches[f].url) :
          FetchFulfils(f, JNumber(status), BodyAt(fetches[f].url))
    \/ \E f \in InFlight : FetchRejects(f)

SpecThen == InitThen /\ [][NextThen]_vars

\* the handlers that thenFollow made
ThenFollowHandlers == UNION {Scoped(Text(relation)) : relation \in ThenFollowRelations}

\* the promise of on holds the value: an object or a list as it is, any other
\* value as what the handler returned
FulfilledWith(o, handler, v) ==
    /\ promises[o].state = "fulfilled"
    /\ IF v.type \in {"object", "array"}
       THEN /\ promises[o].value.t = "object"
            /\ objects[promises[o].value.id].class = "value"
            /\ objects[promises[o].value.id].json = v
       ELSE promises[o].value = Returned(handler, v)

\* the promise of on settles as the promise q that the handler returned
SettlesAs(o, q) ==
    /\ promises[o].state = promises[q].state
    /\ promises[q].state # "pending" => promises[o].value = promises[q].value

\* the on promises whose handler returned the promise of a follow
FollowReturned ==
    {o \in OnPromises :
        /\ promises[o].resolvedWith # 0
        /\ \E i \in FollowCalls : calls[i].promise = promises[o].resolvedWith}

\* C16: the promise that on returns is resolved with the value the handler
\* returned, and on can be called on it again; when the handler returned the
\* promise of a follow, the next on of the chain is dispatched on the status of
\* the response of that follow and its handler is given the parsed body of
\* that response.
C16_HandlerValueResolves ==
    /\ \A n \in 1..Len(invoked) :
          IF invoked[n].handler \in ThenFollowHandlers
          THEN /\ invoked[n].on \in FollowReturned
               /\ SettlesAs(invoked[n].on, promises[invoked[n].on].resolvedWith)
          ELSE FulfilledWith(invoked[n].on, invoked[n].handler, invoked[n].body)
    /\ \A m \in 1..Len(invoked) :
          promises[invoked[m].on].src \in FollowReturned
              => LET q == promises[promises[invoked[m].on].src].resolvedWith
                 IN  /\ promises[q].state = "fulfilled"
                     /\ invoked[m].response = promises[q].value
                     /\ invoked[m].status = objects[promises[q].value.id].status
                     /\ invoked[m].handler = ByAlternative(invoked[m].on)
                     /\ invoked[m].body = Parsed(promises[q].value.id)

\* the handler of thenFollow for 'car' was called for the body of '/a', the
\* follow of the link was answered with status 404, and the next on of the chain
\* called its '404' handler with the body of that answer
C16_Witness ==
    \E n, m \in 1..Len(invoked) :
        /\ invoked[n].handler = "car:200"
        /\ invoked[n].body = Person
        /\ promises[invoked[m].on].src = invoked[n].on
        /\ invoked[m].handler = "local:404"
        /\ invoked[m].body = Named("/car")

-----------------------------------------------------------------------------
(* SpecHeaders: the headers of the six verbs, with header names that       *)
(* differ in case between the client and the call.                         *)

HeaderGlobals == { <<>>, << <<"Accept", "g">> >>, << <<"x-a", "g">> >> }

HeaderLocals == { <<>>, << <<"accept", "l">> >>, << <<"X-A", "l">> >> }

InitHeaders ==
    \E headers \in HeaderGlobals : InitialClient(ClientOptions(FALSE, headers, <<>>))

NextHeaders ==
    \/ \E h \in HeaderLocals : Len(calls) < MaxHeaderCalls /\ Get(JString("/a"), h)
    \/ \E h \in HeaderLocals : Len(calls) < MaxHeaderCalls /\ Head_(JString("/a"), h)
    \/ \E h \in HeaderLocals :
          Len(calls) < MaxHeaderCalls /\ Put(JString("/a"), JObject(NoProps), h)
    \/ \E h \in HeaderLocals :
          Len(calls) < MaxHeaderCalls /\ Post(JString("/a"), JObject(NoProps), h)
    \/ \E h \in HeaderLocals :
          Len(calls) < MaxHeaderCalls /\ Patch(JString("/a"), JObject(NoProps), h)
    \/ \E h \in HeaderLocals :
          Len(calls) < MaxHeaderCalls /\ Del(JString("/a"), JUndefined, h)
    \/ \E f \in InFlight, status \in OnStatuses :
          FetchFulfils(f, JNumber(status), EmptyText)
    \/ \E f \in InFlight : FetchRejects(f)

SpecHeaders == InitHeaders /\ [][NextHeaders]_vars

\* the calls that made a transport call
Fetched == {i \in 1..Len(calls) : calls[i].op # "follow" /\ calls[i].fetch # 0}

\* the headers call i sent on the wire, and the method it sent them with
Wire(i) == fetches[calls[i].fetch].headers

MethodOf(i) == fetches[calls[i].fetch].method

\* the header names of an object, without their case
LowerNames(headers) == {toLowerCase(headers[j][1]) : j \in 1..Len(headers)}

\* the values an object gives for a header name, without the case of the name
ValuesFor(headers, name) ==
    {headers[j][2] : j \in {k \in 1..Len(headers) : toLowerCase(headers[k][1]) = name}}

\* the default headers a method is to get
DefaultsOf(method) ==
    IF method \in {"GET", "HEAD"} THEN DEFAULT_SAFE_HEADERS
    ELSE IF method = "PATCH" THEN DEFAULT_PATCH_HEADERS
    ELSE DEFAULT_UNSAFE_HEADERS

\* C19: the default headers of a request follow from its method: for GET and HEAD
\* accept and no content-type, for PATCH accept and the content-type
\* application/json-patch+json, for PUT, POST and DELETE accept and the
\* content-type application/json.  A default is on the wire under every name
\* that neither the client nor the call gives.
C19_DefaultHeadersByMethod ==
    \A i \in Fetched :
        \A name \in {"accept", "content-type"} \
                        (LowerNames(calls[i].given) \cup LowerNames(globalOptions.headers)) :
            IF HasKey(DefaultsOf(MethodOf(i)), name)
            THEN /\ HasKey(Wire(i), name)
                 /\ At(Wire(i), name) = At(DefaultsOf(MethodOf(i)), name)
            ELSE ~HasKey(Wire(i), name)

\* the values that are the default of some method for a header name
DefaultValues(name) ==
    {At(defaults, name) : defaults \in {d \in {DEFAULT_SAFE_HEADERS, DEFAULT_UNSAFE_HEADERS,
                                                 DEFAULT_PATCH_HEADERS} : HasKey(d, name)}}

\* C20: for every header name, whatever its case, the value on the wire is the
\* one the call gives, else the one the client gives, else a default; every name
\* the call or the client gives is on the wire, in lower case, with the value
\* unchanged.
C20_HeaderMergeOrder ==
    \A i \in Fetched :
        /\ LowerNames(calls[i].given) \cup LowerNames(globalOptions.headers)
               \subseteq Range(Keys(Wire(i)))
        /\ \A j \in 1..Len(Wire(i)) :
              LET name == Wire(i)[j][1]
                  value == Wire(i)[j][2]
              IN  /\ toLowerCase(name) = name
                  /\ IF name \in LowerNames(calls[i].given)
                     THEN value \in ValuesFor(calls[i].given, name)
                     ELSE IF name \in LowerNames(globalOptions.headers)
                     THEN value \in ValuesFor(globalOptions.headers, name)
                     ELSE value \in DefaultValues(name)

-----------------------------------------------------------------------------
(* SpecKeys: get calls whose headers differ in the case of a name, or hold  *)
(* the characters that createCacheKey joins the headers with.              *)

KeyUrls == { JString("/a"), JString("/b") }

KeyHeaders ==
    { <<>>,
      << <<"X-A", "1">> >>,
      << <<"x-a", "1">> >>,
      << <<"x-a", "1">>, <<"x-b", "2">> >>,
      << <<"x-a", "1_x-b=2">> >> }

InitKeys == InitialClient(ClientOptions(FALSE, <<>>, <<>>))

NextKeys ==
    \/ \E u \in KeyUrls, h \in KeyHeaders : Len(calls) < MaxKeyCalls /\ Get(u, h)
    \/ \E f \in InFlight : FetchFulfils(f, JNumber(200), JsonText(JObject(NoProps)))
    \/ \E f \in InFlight : FetchRejects(f)

SpecKeys == InitKeys /\ [][NextKeys]_vars

\* the mapping of an object of headers with its names in lower case
LowerMapping(headers) ==
    {<<toLowerCase(headers[k][1]), headers[k][2]>> : k \in 1..Len(headers)}

\* C21: the cache key takes header names without their case: a get made while
\* an earlier get of the same url is pending, whose merged headers differ from
\* those of the earlier one in the case of names only, returns the promise of
\* the earlier get.
C21_KeyIgnoresNameCase ==
    \A i, j \in GetCalls :
        (/\ i < j
         /\ calls[i].url = calls[j].url
         /\ LowerMapping(calls[i].headers) = LowerMapping(calls[j].headers)
         /\ calls[i].promise \in calls[j].pending)
            => calls[j].promise = calls[i].promise

\* C27: two get calls that differ in the url or in the merged headers do not
\* return the same promise, and each makes a transport call of its own that
\* carries its headers.
C27_DifferentGetsAreApart ==
    \A i, j \in GetCalls :
        (/\ i # j
         /\ \/ calls[i].url # calls[j].url
            \/ LowerMapping(calls[i].headers) # LowerMapping(calls[j].headers))
            => /\ calls[i].promise # calls[j].promise
               /\ calls[i].fetch # 0 /\ calls[j].fetch # 0
               /\ calls[i].fetch # calls[j].fetch
               /\ Mapping(fetches[calls[i].fetch].headers) = LowerMapping(calls[i].headers)
               /\ Mapping(fetches[calls[j].fetch].headers) = LowerMapping(calls[j].headers)

-----------------------------------------------------------------------------
(* SpecNoUrl: the six verbs called with and without a url.                 *)

\* arguments that hold no url: the empty string, null, an object without
\* _links, and a representation whose self link has an empty href
NoUrlArgs == { JString(""), JNull, JObject(NoProps), WithSelf("") }

UrlArgs == { JString("/a"), WithSelf("/a") }

InitNoUrl == \E q \in BOOLEAN : InitialClient(ClientOptions(q, <<>>, <<>>))

\* a verb is called with the argument
VerbCalled(u) ==
    \/ Get(u, <<>>)
    \/ Head_(u, <<>>)
    \/ Put(u, JObject(NoProps), <<>>)
    \/ Post(u, JObject(NoProps), <<>>)
    \/ Patch(u, JObject(NoProps), <<>>)
    \/ Del(u, JObject(NoProps), <<>>)

NextNoUrl ==
    \/ \E u \in NoUrlArgs \cup UrlArgs : Len(calls) < MaxNoUrlCalls /\ VerbCalled(u)
    \/ \E p \in Waiting(Cur) : Next_(p)
    \/ \E f \in InFlight : FetchFulfils(f, JNumber(200), EmptyText)
    \/ \E f \in InFlight : FetchRejects(f)

SpecNoUrl == InitNoUrl /\ [][NextNoUrl]_vars

\* the call just made threw: it returned no promise, and it left the promises,
\* the transport calls, the queue and the cache as they were
ThrewAtOnce ==
    /\ calls'[Len(calls')].promise = 0
    /\ promises' = promises
    /\ fetches' = fetches
    /\ continuationPromise' = continuationPromise
    /\ getPromiseCache' = getPromiseCache

\* C22: get, head, put, post, patch and del called with an argument that holds
\* no url throw at once: no promise is returned, rejected or other, and no
\* transport call is made, then or later.
C22_NoUrlThrows == [][\A u \in NoUrlArgs : VerbCalled(u) => ThrewAtOnce]_vars

\* with the queue on, a put and a get without url have thrown and no transport
\* call was made
C22_Witness ==
    /\ globalOptions.queueUnsafeRequests
    /\ \E i, j \in 1..Len(calls) :
          /\ calls[i].op = "PUT" /\ calls[i].promise = 0
          /\ calls[j].op = "get" /\ calls[j].promise = 0
    /\ fetches = <<>>
    /\ promises = <<>>

-----------------------------------------------------------------------------
(* SpecMethod: follow with a method other than GET, for relations that are  *)
(* embedded, linked, or both.                                              *)

\* a representation with a relation that is linked and embedded, one that is
\* only embedded, and one with a dot in its name that is linked and embedded
Twice ==
    Representation(
        "both" :> Link("/both") @@ "b.c" :> Link("/bc"),
        "both" :> Named("in") @@ "only" :> Named("only") @@ "b.c" :> Named("bc"))

MethodRelations == { <<"both">>, <<"only">>, <<"b", ".", "c">>, <<"missing">> }

OtherMethods == {"HEAD", "PUT", "POST", "PATCH", "DELETE"}

MethodBodies == { JUndefined, Named("new") }

MethodOptions ==
    { [FollowOptions(all, method, <<>>) EXCEPT !.body = body] :
        all \in BOOLEAN, method \in OtherMethods, body \in MethodBodies }

InitMethod == InitialClient(ClientOptions(FALSE, <<>>, <<>>))

NextMethod ==
    \/ \E relation \in MethodRelations, options \in MethodOptions :
          Follow(Twice, relation, options)
    \/ \E f \in InFlight, status \in OnStatuses :
          FetchFulfils(f, JNumber(status), JsonText(JString(fetches[f].url)))
    \/ \E f \in InFlight : FetchRejects(f)

SpecMethod == InitMethod /\ [][NextMethod]_vars

\* C23: follow with a method other than GET does not look at _embedded: for a
\* relation that is linked, embedded or not, it makes one transport call with
\* that method to the href of the link, with options.body as its body for PUT,
\* POST, PATCH and DELETE, and for a relation that is embedded and not linked
\* it makes none and resolves with status 'norel'.
C23_OtherMethodsSkipEmbedded ==
    \A i \in FollowCalls :
        calls[i].options.method # "GET" =>
            /\ In(RelationOf(i), Links(i))
                  => /\ Cardinality(calls[i].fetched) = 1
                     /\ \A f \in calls[i].fetched :
                           /\ fetches[f].method = calls[i].options.method
                           /\ fetches[f].url = FirstLink(i).props["href"].value
                           /\ (/\ calls[i].options.method # "HEAD"
                               /\ calls[i].options.body # JUndefined)
                                 => fetches[f].body = stringify(calls[i].options.body)
            /\ (In(RelationOf(i), Embedded(i)) /\ ~In(RelationOf(i), Links(i)))
                  => /\ calls[i].fetched = {}
                     /\ Fulfilled(i)
                     /\ Resolved(i).status = STATUS_NOREL

-----------------------------------------------------------------------------
(* SpecTransform: the six verbs of a client with a response transformer.    *)

Transformers == {"identity", "stamp"}

InitTransform ==
    \E transformer \in Transformers :
        InitialClient([ClientOptions(FALSE, <<>>, <<>>) EXCEPT
                          !.responseTransformer = transformer])

NextTransform ==
    \/ Len(calls) < MaxTransformCalls /\ VerbCalled(JString("/a"))
    \/ \E f \in InFlight : FetchFulfils(f, JNumber(200), JsonText(JObject(NoProps)))
    \/ \E f \in InFlight : FetchRejects(f)

SpecTransform == InitTransform /\ [][NextTransform]_vars

\* the response that fetch fulfilled transport call f with
FetchedResponse(f) ==
    CHOOSE r \in 1..Len(objects) : objects[r].fetch = f /\ objects[r].via = 0

\* the value is what the transformer of the client returns for the response r:
\* the response itself, or for 'stamp' the copy made from it
TransformerValue(value, r) ==
    /\ value.t = "object"
    /\ IF globalOptions.responseTransformer = "stamp"
       THEN objects[value.id].via = r
       ELSE value.id = r

\* C24: for every verb, the response transformer is called once for the
\* response of a transport call, and the promise of the verb resolves with the
\* value the transformer returned.
C24_EveryResponseTransformed ==
    \A i \in Fetched :
        fetches[calls[i].fetch].state = "fulfilled"
            => /\ objects[FetchedResponse(calls[i].fetch)].transformed = 1
               /\ promises[calls[i].promise].state = "fulfilled"
               /\ TransformerValue(promises[calls[i].promise].value,
                                   FetchedResponse(calls[i].fetch))

\* what the transformer of the client returns for the error of transport call f
TransformedError(f) ==
    IF globalOptions.responseTransformer = "stamp"
    THEN [t |-> "stamped", of |-> NetworkError(f)]
    ELSE NetworkError(f)

\* C31: for every verb, the error of a transport call that failed is passed to
\* the response transformer, and the promise of the verb rejects with what the
\* transformer made of the error.
C31_EveryErrorTransformed ==
    \A i \in Fetched :
        fetches[calls[i].fetch].state = "rejected"
            => /\ promises[calls[i].promise].state = "rejected"
               /\ promises[calls[i].promise].value = TransformedError(calls[i].fetch)

-----------------------------------------------------------------------------
(* SpecQueueLive: the queue of unsafe requests with the scheduling it       *)
(* relies on.  The reaction next of a settled promise is a job of the       *)
(* promise job queue, which runs every job; that every transport call       *)
(* settles is what the transport is asked for.                              *)

InitQueueLive == InitialClient(ClientOptions(TRUE, <<>>, <<>>))

\* the transport settles call f
FetchSettles(f) == FetchFulfils(f, JNumber(201), EmptyText) \/ FetchRejects(f)

NextQueueLive ==
    \/ Len(calls) < MaxLiveCalls /\ Put(JString("/a"), JObject(NoProps), <<>>)
    \/ Len(calls) < MaxLiveCalls /\ Post(JString("/a"), JObject(NoProps), <<>>)
    \/ Len(calls) < MaxLiveCalls /\ Patch(JString("/a"), JObject(NoProps), <<>>)
    \/ Len(calls) < MaxLiveCalls /\ Del(JString("/a"), JObject(NoProps), <<>>)
    \/ \E p \in Waiting(Cur) : Next_(p)
    \/ \E f \in InFlight : FetchFulfils(f, JNumber(201), EmptyText)
    \/ \E f \in InFlight : FetchRejects(f)

SpecQueueLive ==
    /\ InitQueueLive /\ [][NextQueueLive]_vars
    /\ WF_vars(\E p \in Waiting(Cur) : Next_(p))
    /\ WF_vars(\E f \in InFlight : FetchSettles(f))

\* promise p is the promise of an unsafe request
Enqueued(p) == p \in 1..Len(promises) /\ promises[p].kind = "unsafe"

\* the transport call of the request of promise p was made
Dispatched(p) == p \in 1..Len(promises) /\ promises[p].fetch # 0

\* C25: every unsafe request that was made, queued or not, has its transport
\* call made in the end when every transport call made before settles, whether
\* the requests before it failed or not.
C25_QueuedIsDispatched == \A p \in 1..MaxLiveCalls : Enqueued(p) ~> Dispatched(p)

\* a request that waited in the queue behind a request that failed has its
\* transport call made
C25_Witness ==
    \E p \in 1..Len(promises) :
        /\ promises[p].kind = "unsafe" /\ promises[p].pred # 0
        /\ promises[promises[p].pred].state = "rejected"
        /\ promises[p].fetch # 0

-----------------------------------------------------------------------------
(* SpecSugar: follow, followAll and the functions of thenFollow and         *)
(* thenFollowAll, called with the same arguments.                           *)

SugarRelations == { <<"car">>, <<"cars">>, <<"pets">>, <<"missing">> }

SugarOptions ==
    { FollowOptions(all, method, <<>>) : all \in BOOLEAN, method \in FollowMethods }

SugarStatuses == {200, 404, 500}

InitSugar == InitialClient(ClientOptions(FALSE, <<>>, <<>>))

\* a call is made once the requests of the calls before were answered
SugarCallable == InFlight = {}

NextSugar ==
    \/ /\ SugarCallable
       /\ \E relation \in SugarRelations, options \in SugarOptions :
             Follow(Person, relation, options)
    \/ /\ SugarCallable
       /\ \E relation \in SugarRelations, options \in SugarOptions :
             FollowAll(Person, relation, options)
    \/ /\ SugarCallable
       /\ \E relation \in SugarRelations, options \in SugarOptions :
             ThenFollow(relation, options, Person)
    \/ /\ SugarCallable
       /\ \E relation \in SugarRelations, options \in SugarOptions :
             ThenFollowAll(relation, options, Person)
    \/ \E f \in InFlight, status \in SugarStatuses :
          FetchFulfils(f, JNumber(status), JsonText(JString(fetches[f].url)))
    \/ \E f \in InFlight : FetchRejects(f)

SpecSugar == InitSugar /\ [][NextSugar]_vars

\* what a call leaves behind: the promise returned, the transport calls, the
\* promises and what they resolved with, and the cache
Outcome(made) ==
    [ret |-> made.ret, fetches |-> made.s.fetches, promises |-> made.s.promises,
     objects |-> made.s.objects, cache |-> made.s.cache]

-----------------------------------------------------------------------------
(* SpecHref: firstRelationHref and selfLink, called with representations    *)
(* and relations of every shape.                                            *)

\* a representation with an empty list of links, a link object without href
\* and embedded resources that have a self link
Household ==
    Representation(
        "self" :> Link("/house")
        @@ "cars" :> JArray(<<>>)
        @@ "bare" :> JObject(NoProps),
        "address" :> WithSelf("/home")
        @@ "pets" :> JArray(<<WithSelf("/cat"), WithSelf("/dog")>>)
        @@ "x.y" :> WithSelf("/xy"))

HrefRepresentations == { Person, Household, WithSelf("/me"), JObject(NoProps) }

HrefRelations ==
    { <<"self">>, <<"car">>, <<"cars">>, <<"bare">>, <<"address">>, <<"pets">>,
      <<"x", ".", "y">>, <<"missing">> }

\* the application calls firstRelationHref
FirstRelationHref(halRepresentation, relation) ==
    /\ Len(calls) < MaxHrefCalls
    /\ calls' = Append(calls,
                       [op |-> "firstRelationHref", rep |-> halRepresentation,
                        relation |-> relation,
                        ret |-> firstRelationHref(halRepresentation, relation)])
    /\ UNCHANGED <<globalOptions, getPromiseCache, continuationPromise, promises,
                   fetches, objects, invoked, logged>>

\* the application calls selfLink
SelfLink(halRepresentation) ==
    /\ Len(calls) < MaxHrefCalls
    /\ calls' = Append(calls,
                       [op |-> "selfLink", rep |-> halRepresentation,
                        relation |-> <<"self">>,
                        ret |-> selfLink(halRepresentation)])
    /\ UNCHANGED <<globalOptions, getPromiseCache, continuationPromise, promises,
                   fetches, objects, invoked, logged>>

InitHref == InitialClient(ClientOptions(FALSE, <<>>, <<>>))

NextHref ==
    \/ \E halRepresentation \in HrefRepresentations, relation \in HrefRelations :
          FirstRelationHref(halRepresentation, relation)
    \/ \E halRepresentation \in HrefRepresentations : SelfLink(halRepresentation)

SpecHref == InitHref /\ [][NextHref]_vars

\* what is filed in a representation under a relation, undefined when nothing
Filed(halRepresentation, section, relation) ==
    Member(Member(halRepresentation, section), Text(relation))

StringOrNull(value) ==
    value = JNull \/ (value # TypeError /\ value.type = "string")

\* the first of a list, the value itself when it is no list
FirstOf(value) ==
    IF Array_isArray(value) THEN Member(value, "0") ELSE value

\* the href that the relation stands for: of its link, else of the self link
\* of the resource embedded under it, else null
HrefOf(halRepresentation, relation) ==
    LET link == Filed(halRepresentation, "_links", relation)
        embedded == Filed(halRepresentation, "_embedded", relation)
        own == Member(Member(Member(embedded, "_links"), "self"), "href")
    IN  IF link # JUndefined THEN Member(FirstOf(link), "href")
        ELSE IF own # JUndefined THEN own
        ELSE JNull

\* C28: firstRelationHref returns the href of the link of the relation (of the
\* first link of a list), else the href of the self link of the resource
\* embedded under the relation, else null; what it returns is a string or
\* null, it never throws; selfLink returns what firstRelationHref returns for
\* the relation 'self'.
C28_HrefOrNull ==
    \A i \in 1..Len(calls) :
        /\ StringOrNull(calls[i].ret)
        /\ calls[i].ret = HrefOf(calls[i].rep, calls[i].relation)
        /\ calls[i].op = "selfLink"
              => calls[i].ret = firstRelationHref(calls[i].rep, <<"self">>)

-----------------------------------------------------------------------------
(* SpecFrame: get, head and the unsafe verbs called with the same URL and    *)
(* the same headers, with and without the queue of unsafe requests.          *)

InitFrame ==
    \E queue \in BOOLEAN : InitialClient(ClientOptions(queue, <<>>, <<>>))

NextFrame ==
    \/ Len(calls) < MaxFrameCalls /\ Get(JString("/a"), <<>>)
    \/ Len(calls) < MaxFrameCalls /\ Head_(JString("/a"), <<>>)
    \/ Len(calls) < MaxFrameCalls /\ Put(JString("/a"), JObject(NoProps), <<>>)
    \/ Len(calls) < MaxFrameCalls /\ Post(JString("/a"), JObject(NoProps), <<>>)
    \/ Len(calls) < MaxFrameCalls /\ Patch(JString("/a"), JObject(NoProps), <<>>)
    \/ Len(calls) < MaxFrameCalls /\ Del(JString("/a"), JObject(NoProps), <<>>)
    \/ \E p \in Waiting(Cur) : Next_(p)
    \/ \E f \in InFlight : FetchFulfils(f, JNumber(200), EmptyText)

SpecFrame == InitFrame /\ [][NextFrame]_vars

\* the calls of head, put, post, patch and del
OtherVerbCalls ==
    {i \in 1..Len(calls) : calls[i].op \in {"head", "PUT", "POST", "PATCH", "DELETE"}}

\* the transport calls made for promise p
FetchesOf(p) == {f \in 1..Len(fetches) : fetches[f].promise = p}

\* call i has a promise of its own: no get and no other call returned it
OwnPromise(i) ==
    /\ promises[calls[i].promise].kind # "get"
    /\ \A j \in 1..Len(calls) : j # i => calls[j].promise # calls[i].promise

\* call i has one transport call of its own: made with its method, at the call
\* when the request is not queued, and never a second one
OwnFetch(i) ==
    LET p == calls[i].promise
    IN  /\ Cardinality(FetchesOf(p)) <= 1
        /\ promises[p].state # "pending" => Cardinality(FetchesOf(p)) = 1
        /\ \A f \in FetchesOf(p) :
              fetches[f].method = (IF calls[i].op = "head" THEN "HEAD" ELSE calls[i].op)
        /\ calls[i].op = "head" \/ globalOptions.queueUnsafeRequests = FALSE
              => calls[i].fetch \in FetchesOf(p)

\* the cache holds the pending promises of get under their keys and nothing else
CacheOfGets ==
    /\ \A k \in DOMAIN getPromiseCache :
          /\ promises[getPromiseCache[k]].kind = "get"
          /\ promises[getPromiseCache[k]].key = k
    /\ \A p \in 1..Len(promises) :
          promises[p].kind = "get" /\ promises[p].state = "pending"
              => /\ promises[p].key \in DOMAIN getPromiseCache
                 /\ getPromiseCache[promises[p].key] = p

\* C29: head, put, post, patch and del leave the cache of get alone: each such
\* call returns a promise of its own, never the promise of a get in flight to
\* the same URL or of another call, each makes one transport call of its own,
\* and the entry of a pending get stays in the cache as it was.
C29_OtherVerbsLeaveCache ==
    /\ \A i \in OtherVerbCalls : OwnPromise(i) /\ OwnFetch(i)
    /\ CacheOfGets

\* while a get to /a is in flight and in the cache, two calls of the same other
\* verb were made to /a, and both have their transport call in flight
C29_Witness ==
    \E g \in 1..Len(promises), i, j \in OtherVerbCalls :
        /\ promises[g].kind = "get" /\ promises[g].state = "pending"
        /\ getPromiseCache[promises[g].key] = g
        /\ i < j /\ calls[i].op = calls[j].op
        /\ g \in calls[i].pending
        /\ calls[i].promise \in calls[j].pending
        /\ calls[i].fetch \in InFlight /\ calls[j].fetch \in InFlight

-----------------------------------------------------------------------------
(* SpecFan: followAll over a relation with two links, with every method and  *)
(* with and without the queue of unsafe requests.                            *)

FanMethods == {"GET", "HEAD", "PUT", "POST", "PATCH", "DELETE"}

InitFan ==
    \E queue \in BOOLEAN : InitialClient(ClientOptions(queue, <<>>, <<>>))

NextFan ==
    \/ \E method \in FanMethods :
          FollowAll(Person, <<"cars">>, FollowOptions(FALSE, method, <<>>))
    \/ \E p \in Waiting(Cur) : Next_(p)
    \/ \E f \in InFlight, status \in OnStatuses :
          FetchFulfils(f, JNumber(status), JsonText(JString(fetches[f].url)))
    \/ \E f \in InFlight : FetchRejects(f)

SpecFan == InitFan /\ [][NextFan]_vars

\* the promises of the sub-requests of the followAll calls made
SubRequests ==
    UNION {Range(promises[a].subs) :
              a \in {q \in 1..Len(promises) : promises[q].kind = "allSettled"}}

\* C30: once followAll was called for a relation with several links, the
\* transport call of every sub-request has been made: none of them waits for
\* another sub-request to settle, whatever the method and whether or not the
\* client queues unsafe requests.
C30_SubRequestsAtOnce == \A p \in SubRequests : promises[p].fetch # 0

-----------------------------------------------------------------------------
(* SpecSettle: follow and followAll for relations with a list of links or    *)
(* of embedded resources, empty lists among them, with the scheduling the    *)
(* claims on settling rely on: a transport call that was made settles, and   *)
(* the reaction next of a queued request runs.                               *)

SettleRepresentations == { Person, Household }

SettleRelations == { <<"cars">>, <<"pets">>, <<"empty">>, <<"missing">> }

InitSettle == InitialClient(ClientOptions(TRUE, <<>>, <<>>))

NextSettle ==
    \/ \E halRepresentation \in SettleRepresentations, relation \in SettleRelations,
          method \in FanMethods :
          Follow(halRepresentation, relation, FollowOptions(FALSE, method, <<>>))
    \/ \E halRepresentation \in SettleRepresentations, relation \in SettleRelations,
          method \in FanMethods :
          FollowAll(halRepresentation, relation, FollowOptions(FALSE, method, <<>>))
    \/ \E p \in Waiting(Cur) : Next_(p)
    \/ \E f \in InFlight : FetchFulfils(f, JNumber(201), EmptyText)
    \/ \E f \in InFlight : FetchRejects(f)

SpecSettle ==
    /\ InitSettle /\ [][NextSettle]_vars
    /\ WF_vars(\E p \in Waiting(Cur) : Next_(p))
    /\ WF_vars(\E f \in InFlight : FetchSettles(f))

\* the promises of follow and followAll that have not settled
Unsettled ==
    {p \in 1..Len(promises) :
        promises[p].kind = "follow" /\ promises[p].state = "pending"}

\* every transport call that was made has settled, and no request waits in the
\* queue: nothing is left that could settle a promise
Quiet == InFlight = {} /\ Waiting(Cur) = {}

\* C32: a promise that follow or followAll returned has settled once every
\* transport call made for it has settled; so it has for a relation whose list
\* of links or of embedded resources is empty.
C32_FollowSettles == Quiet => Unsettled = {}

-----------------------------------------------------------------------------
(* SpecText: get, followAll and on for a relation whose links have equal     *)
(* hrefs, so that one response of the transport is in several results.       *)

\* a representation with two links to the same resource
Twins ==
    Representation(
        "self" :> Link("/two")
        @@ "twins" :> JArray(<<Link("/t"), Link("/t")>>)
        @@ "cars" :> JArray(<<Link("/t"), Link("/c2")>>),
        NoProps)

TextRelations == { <<"twins">>, <<"cars">> }

TextHandlers == Handlers("local", << <<"2xx">> >>)

InitText == InitialClient(ClientOptions(FALSE, <<>>, <<>>))

NextText ==
    \/ calls = <<>> /\ Get(JString("/t"), <<>>)
    \/ \E relation \in TextRelations :
          FollowAll(Twins, relation, FollowOptions(FALSE, "GET", <<>>))
    \/ \E p \in 1..Len(promises) :
          /\ Cardinality({o \in 1..Len(promises) : promises[o].kind = "on"}) < MaxTextOn
          /\ On(p, TextHandlers)
    \/ \E o \in Dispatchable(Cur) : CallStatusHandler(o)
    \/ \E f \in InFlight, status \in OnStatuses :
          FetchFulfils(f, JNumber(status), JsonText(JString(fetches[f].url)))

SpecText == InitText /\ [][NextText]_vars

\* C34: text() is called at most once on every response the transport
\* delivered, also when the response is in several results: in the list of a
\* followAll over links with equal hrefs, or in the results of calls that were
\* served by one cached get.
C34_TextCalledOnce ==
    \A r \in 1..Len(objects) :
        (objects[r].class = "response" /\ objects[r].fetch # 0)
            => objects[r].textCalls <= 1

-----------------------------------------------------------------------------
(* SpecInit: get calls that differ in the fetchInit they are given, made by  *)
(* a client that has a fetchInit of its own.                                 *)

GlobalInit == << <<"mode", "cors">>, <<"credentials", "same-origin">> >>

LocalInits ==
    { <<>>,
      << <<"credentials", "include">> >>,
      << <<"credentials", "omit">>, <<"cache", "no-store">> >>,
      << <<"method", "POST">> >> }

InitCallHeaders == { <<>>, << <<"x-a", "1">> >> }

\* get( url, { headers, fetchInit } )
GetWithInit(url, headers, fetchInit) ==
    /\ Len(calls) < MaxInitCalls
    /\ Install(get(Cur, url, [headers |-> headers, fetchInit |-> fetchInit]).s)

InitInit ==
    InitialClient([ClientOptions(FALSE, <<>>, <<>>) EXCEPT !.fetchInit = GlobalInit])

NextInit ==
    \/ \E headers \in InitCallHeaders, fetchInit \in LocalInits :
          GetWithInit(JString("/a"), headers, fetchInit)
    \/ \E f \in InFlight : FetchFulfils(f, JNumber(200), EmptyText)
    \/ \E f \in InFlight : FetchRejects(f)

SpecInit == InitInit /\ [][NextInit]_vars

\* the init that the transport is given for a call with the given fetchInit: the
\* fetchInit of the call over the one of the client
InitOver(fetchInit) ==
    LET names == {GlobalInit[k][1] : k \in 1..Len(GlobalInit)}
                    \cup {fetchInit[k][1] : k \in 1..Len(fetchInit)}
    IN  {<<name, IF HasKey(fetchInit, name) THEN At(fetchInit, name)
                 ELSE At(GlobalInit, name)>> :
            name \in names \ {"method", "headers", "body"}}

\* C35: a get made while an earlier get with the same url and merged headers is
\* pending returns the promise of the earlier call and makes no transport call,
\* whatever its fetchInit: the transport is given the fetchInit of the calls
\* that made a transport call, and of no other call.
C35_KeyIgnoresFetchInit ==
    /\ \A i, j \in GetCalls :
          (i < j /\ SameRequest(i, j) /\ calls[i].promise \in calls[j].pending)
              => (calls[j].promise = calls[i].promise /\ calls[j].fetch = 0)
    /\ \A f \in 1..Len(fetches) :
          \E i \in GetCalls :
              /\ calls[i].fetch = f
              /\ Mapping(fetches[f].init) = InitOver(calls[i].fetchInit)

\* a get with a fetchInit of its own was given the pending promise of a get with
\* another fetchInit, and the transport was called once, with the first one
C35_Witness ==
    \E i, j \in GetCalls :
        /\ i < j /\ calls[i].fetchInit # calls[j].fetchInit
        /\ calls[j].fetchInit # <<>>
        /\ calls[j].promise = calls[i].promise
        /\ Len(fetches) = 1
        /\ Mapping(fetches[1].init) = InitOver(calls[i].fetchInit)
        /\ Mapping(fetches[1].init) # InitOver(calls[j].fetchInit)

-----------------------------------------------------------------------------
(* SpecShared: one options object of the application, passed to follow,      *)
(* followAll and the functions of thenFollow and thenFollowAll.              *)

SharedRelations == { <<"car">>, <<"cars">>, <<"pets">> }

\* the options objects of the application
Shared == {r \in 1..Len(objects) : objects[r].class = "options"}

SharedCallable ==
    Cardinality({i \in 1..Len(calls) : calls[i].op = "follow"}) < MaxSharedCalls

\* the application makes its options object, without followAll
ShareOptions ==
    /\ Shared = {}
    /\ objects' = Append(objects, OptionsObject(FollowOptions(FALSE, "GET", <<>>)))
    /\ UNCHANGED <<globalOptions, getPromiseCache, continuationPromise, promises,
                   fetches, calls, invoked, logged>>

FollowShared(relation, ref) ==
    SharedCallable /\ Install(followOf(Cur, Person, relation, ref).s)

FollowAllShared(relation, ref) ==
    SharedCallable /\ Install(followAllOf(Cur, Person, relation, ref).s)

ThenFollowShared(relation, ref) ==
    SharedCallable /\ Install(thenFollowOf(Cur, relation, ref, Person).s)

ThenFollowAllShared(relation, ref) ==
    SharedCallable /\ Install(thenFollowAllOf(Cur, relation, ref, Person).s)

InitShared == InitialClient(ClientOptions(FALSE, <<>>, <<>>))

NextShared ==
    \/ ShareOptions
    \/ \E relation \in SharedRelations, ref \in Shared : FollowShared(relation, ref)
    \/ \E relation \in SharedRelations, ref \in Shared : FollowAllShared(relation, ref)
    \/ \E relation \in SharedRelations, ref \in Shared : ThenFollowShared(relation, ref)
    \/ \E relation \in SharedRelations, ref \in Shared :
          ThenFollowAllShared(relation, ref)
    \/ \E f \in InFlight : FetchFulfils(f, JNumber(200), EmptyText)

SpecShared == InitShared /\ [][NextShared]_vars

\* the options object of the application is as the application made it
OptionsKept ==
    \A ref \in Shared : objects[ref].info = FollowOptions(FALSE, "GET", <<>>)

\* the follow call made last follows one resource: it is resolved with the
\* promise of one request, or with one response
FollowsOne ==
    LET p == calls'[Len(calls')].promise
    IN  IF promises'[p].src # 0
        THEN promises'[promises'[p].src].kind # "allSettled"
        ELSE objects'[promises'[p].value.id].class # "array"

\* C36: followAll and the function of thenFollowAll leave the options object
\* they are given as it was, so that follow and the function of thenFollow,
\* given the same object afterwards, follow one resource only.
C36_OptionsLeftAlone ==
    /\ []OptionsKept
    /\ [][\A relation \in SharedRelations, ref \in Shared :
             (FollowShared(relation, ref) \/ ThenFollowShared(relation, ref))
                 => FollowsOne]_vars

-----------------------------------------------------------------------------
(* SpecThrow: verb calls that throw for want of a url, among calls that    *)
(* are made, with the queue of unsafe requests on.                         *)

ThrowArgs == { JString("/a"), WithSelf("") }

ThrowCallable == Len(calls) < MaxThrowCalls

InitThrow == InitialClient(ClientOptions(TRUE, <<>>, <<>>))

NextThrow ==
    \/ \E u \in ThrowArgs : ThrowCallable /\ Get(u, <<>>)
    \/ \E u \in ThrowArgs : ThrowCallable /\ Head_(u, <<>>)
    \/ \E u \in ThrowArgs : ThrowCallable /\ Put(u, JObject(NoProps), <<>>)
    \/ \E u \in ThrowArgs : ThrowCallable /\ Post(u, JObject(NoProps), <<>>)
    \/ \E u \in ThrowArgs : ThrowCallable /\ Patch(u, JObject(NoProps), <<>>)
    \/ \E u \in ThrowArgs : ThrowCallable /\ Del(u, JObject(NoProps), <<>>)
    \/ \E p \in Waiting(Cur) : Next_(p)
    \/ \E f \in InFlight : FetchFulfils(f, JNumber(200), EmptyText)

SpecThrow == InitThrow /\ [][NextThrow]_vars

\* the calls that returned a promise
CallsReturned == {i \in 1..Len(calls) : calls[i].promise # 0}

\* the call just made, if it threw, left the cache and the tail of the queue
ThrowKeeps ==
    (Len(calls') = Len(calls) + 1 /\ calls'[Len(calls')].promise = 0)
        => /\ getPromiseCache' = getPromiseCache
           /\ continuationPromise' = continuationPromise

\* the unsafe call made before call i that returned a promise, 0 if there is none
UnsafeBefore(i) ==
    LET before == {j \in UnsafeCalls : j < i}
    IN  IF before = {} THEN 0 ELSE CHOOSE j \in before : \A k \in before : k <= j

\* the unsafe requests are chained as the calls that returned a promise were
\* made, the first is dispatched by its call, and every transport call is
\* the one of a call that returned a promise
ChainedAsCalled ==
    /\ \A i \in UnsafeCalls :
          IF UnsafeBefore(i) = 0
          THEN calls[i].fetch # 0
          ELSE /\ promises[calls[i].promise].pred = calls[UnsafeBefore(i)].promise
               /\ promises[calls[i].promise].fetch # 0
                      => promises[calls[UnsafeBefore(i)].promise].fetch
                             \in 1..(promises[calls[i].promise].fetch - 1)
    /\ \A f \in 1..Len(fetches) :
          \E i \in CallsReturned : promises[calls[i].promise].fetch = f
    /\ continuationPromise =
          IF UnsafeCalls = {} THEN 0
          ELSE calls[CHOOSE i \in UnsafeCalls : \A k \in UnsafeCalls : k <= i].promise

\* C38: a verb call that throws because it is given no url leaves the cache
\* of gets and the tail of the queue as they were, and the requests made
\* before and after it are chained and dispatched in the order of their
\* calls, as they are without the call that threw.
C38_ThrowLeavesClient ==
    /\ []ChainedAsCalled
    /\ [][ThrowKeeps]_vars

\* a put whose transport call is in flight, then a post that threw, then a
\* del that waits for the put
C38_Witness ==
    /\ Len(calls) = 3
    /\ calls[1].op = "PUT" /\ calls[1].promise # 0
    /\ promises[calls[1].promise].fetch \in InFlight
    /\ calls[2].op = "POST" /\ calls[2].promise = 0
    /\ calls[3].op = "DELETE" /\ calls[3].promise # 0
    /\ promises[calls[3].promise].pred = calls[1].promise

=============================================================================
